---------------------------- MODULE Spec2Model ----------------------------
(***************************************************************************)
(* Plenum RBFT replica (plenum/server/replica.py) with the parts of Node   *)
(* (plenum/server/node.py) that drive it: three-phase commit, watermarks,  *)
(* checkpoints, stashes, view change hooks and catch-up hooks.             *)
(*                                                                         *)
(* A replica is a record; every handler of the class is an operator that   *)
(* maps the record before the call to the record after it.                 *)
(***************************************************************************)
EXTENDS Integers, Sequences, FiniteSets, TLC

(* ------------------------------ pool ---------------------------------- *)

Nodes == {"N1", "N2", "N3", "N4"}

NodeRank == [n \in Nodes |-> CASE n = "N1" -> 0 [] n = "N2" -> 1 [] n = "N3" -> 2 [] OTHER -> 3]

N == Cardinality(Nodes)

\* the pool tolerates a failure more than it can
TooManyFailures(n) == n \div 3

getMaxFailures(n) == IF n >= 4 THEN (n - 1) \div 3 ELSE 0

f == getMaxFailures(N)

NoName == "None"

(* ------------------------------ config -------------------------------- *)

CHK_FREQ == 2

LOG_SIZE == 3 * CHK_FREQ

SysMaxSize == 2147483647

STASHED_CHECKPOINTS_BEFORE_CATCHUP == 1

(* sizes of the explored input space *)

MaxView == 1

MaxSeqNo == 3

MaxTime == 1

(* ------------------------------ quorums ------------------------------- *)

\* Quorums(n): a PREPARE quorum is n-f-1 votes, a COMMIT quorum n-f votes
QuorumsOf(n) ==
    [f |-> getMaxFailures(n), weak |-> getMaxFailures(n) + 1,
     prepare |-> n - getMaxFailures(n) - 1, commit |-> n - getMaxFailures(n),
     checkpoint |-> 2 * getMaxFailures(n) + 1,
     timestamp |-> getMaxFailures(n) + 1, propagate |-> getMaxFailures(n) + 1,
     view_change |-> n - getMaxFailures(n), view_change_done |-> n - getMaxFailures(n),
     propagate_primary |-> getMaxFailures(n) + 1]

Quorums == QuorumsOf(N)

\* Node.setPoolParams for a node registry of totalNodes nodes
setPoolParams(totalNodes) ==
    [totalNodes |-> totalNodes,
     f |-> getMaxFailures(totalNodes),
     requiredNumberOfInstances |-> getMaxFailures(totalNodes) + 1,
     minimumNodes |-> 2 * getMaxFailures(totalNodes) + 1,
     quorums |-> QuorumsOf(totalNodes)]

(* ------------------------------ 3PC keys ------------------------------ *)

None3PC == << >>

\* positive when key2 is the later key, negative when key1 is, 0 when equal
compare_3PC_keys(key1, key2) ==
    IF key1[1] = key2[1] THEN key2[2] - key1[2] ELSE key2[1] - key1[1]

max_3PC_key(keys) ==
    CHOOSE k \in keys : \A o \in keys : compare_3PC_keys(o, k) >= 0

KeyLeq(a, b) == compare_3PC_keys(a, b) >= 0

KeyLt(a, b) == compare_3PC_keys(a, b) > 0

(* ------------------------------ dicts --------------------------------- *)

EmptyDict == << >>

Put(d, k, v) == [x \in (DOMAIN d) \cup {k} |-> IF x = k THEN v ELSE d[x]]

Pop(d, k) == [x \in (DOMAIN d) \ {k} |-> d[x]]

PopAll(d, ks) == [x \in (DOMAIN d) \ ks |-> d[x]]

\* the keys of a SortedDict keyed by 3PC key, in increasing order
RECURSIVE SortedKeys(_)
SortedKeys(ks) ==
    IF ks = {} THEN << >>
    ELSE LET m == CHOOSE k \in ks : \A o \in ks : KeyLeq(k, o)
         IN  <<m>> \o SortedKeys(ks \ {m})

SeqToSet(s) == {s[i] : i \in DOMAIN s}

(* ------------------------------ messages ------------------------------ *)

PREPREPARE == "PREPREPARE"

PREPARE == "PREPARE"

COMMIT == "COMMIT"

CHECKPOINT == "CHECKPOINT"

ORDERED == "ORDERED"

MsgKey(m) == <<m.viewNo, m.ppSeqNo>>


Reqs == {"r1", "r2"}

batchDigest(reqs) == <<"sha256">> \o reqs

NoneRoot == << >>

StateRoot(applied) == <<"state">> \o applied

TxnRoot(applied) == <<"txn">> \o applied

NoTime == -1

(* ------------------------------ replica ------------------------------- *)

\* Replica.__init__ together with the fields of its node that it reads
InitReplica(name, isMaster) ==
    [name |-> name, isMaster |-> isMaster,
     viewNo |-> 0, mode |-> "participating", utc_epoch |-> 1,
     requests |-> {}, applied |-> << >>, committedSize |-> 0,
     primaryName |-> NoName, primaryNames |-> EmptyDict,
     postElectionMsgs |-> << >>,
     prePreparesPendingFinReqs |-> << >>,
     prePreparesPendingPrevPP |-> EmptyDict,
     preparesWaitingForPrePrepare |-> EmptyDict,
     commitsWaitingForPrepare |-> EmptyDict,
     sentPrePrepares |-> EmptyDict,
     prePrepares |-> EmptyDict,
     prepares |-> EmptyDict,
     commits |-> EmptyDict,
     ordered |-> << >>,
     stashed_out_of_order_commits |-> << >>,
     checkpoints |-> EmptyDict,
     stashedRecvdCheckpoints |-> EmptyDict,
     stashingWhileOutsideWaterMarks |-> << >>,
     h |-> 0, H |-> 0 + LOG_SIZE,
     lastPrePrepareSeqNo |-> 0,
     requestQueue |-> << >>,
     requestSender |-> EmptyDict, seqNoDB |-> EmptyDict,
     propagates |-> EmptyDict, forwarded |-> {}, propagated |-> << >>,
     toClient |-> {},
     batches |-> EmptyDict,
     last_ordered_3pc |-> <<0, 0>>,
     last_prepared_before_view_change |-> None3PC,
     requested_pre_prepares |-> EmptyDict,
     requested_prepares |-> EmptyDict,
     requested_commits |-> EmptyDict,
     last_accepted_pre_prepare_time |-> NoTime,
     pre_prepares_stashed_for_incorrect_time |-> EmptyDict,
     consumedAllStashedMsgs |-> TRUE,
     outBox |-> << >>,
     stashedOrderedReqs |-> << >>,
     orderedLog |-> << >>,
     catchupStarted |-> FALSE,
     view_change_in_progress |-> FALSE, propagate_primary |-> FALSE,
     handledOutsideWatermarks |-> {},
     acceptedPrePrepares |-> {},
     instanceChanges |-> EmptyDict, insChngThrottled |-> FALSE,
     next_view_indications |-> EmptyDict,
     instanceChangesSent |-> << >>,
     view_change_done |-> EmptyDict, previous_master_primary |-> NoName,
     primary_verified |-> FALSE, has_view_change_from_primary |-> FALSE,
     has_acceptable_view_change_quorum |-> FALSE,
     accepted_view_change_done_message |-> << >>,
     propagated_view_change_completed |-> FALSE,
     scheduled |-> {},
     conns |-> {},
     status |-> "starting",
     lost_primary_at |-> TRUE,
     raised |-> NoName]

\* a setter of h that leaves H where it was
SetLowOnly(r, n) == [r EXCEPT !.h = n]

\* h setter: H follows h
SetH(r, n) == [r EXCEPT !.h = n, !.H = n + LOG_SIZE]

\* a setter of lastPrePrepareSeqNo that drops the value
LastPrePrepareSeqNoKept(r, n) == r

\* lastPrePrepareSeqNo setter: the value never decreases through it
SetLastPrePrepareSeqNo(r, n) ==
    IF n > r.lastPrePrepareSeqNo THEN [r EXCEPT !.lastPrePrepareSeqNo = n] ELSE r

send(r, msg) == [r EXCEPT !.outBox = Append(@, msg)]

(* ------------------------ view changer: INSTANCE_CHANGE ---------------- *)

RECURSIVE startViewChange(_, _, _)
RECURSIVE start_selection(_)
RECURSIVE on_catchup_complete(_)

INSTANCE_CHANGE == "INSTANCE_CHANGE"

\* InstanceChanges: view number -> the nodes that voted for it
hasInstChngFrom(r, view_no, frm) ==
    view_no \in DOMAIN r.instanceChanges /\ frm \in r.instanceChanges[view_no]

addInstChng(r, view_no, frm) ==
    [r EXCEPT !.instanceChanges =
        Put(@, view_no, (IF view_no \in DOMAIN @ THEN @[view_no] ELSE {}) \cup {frm})]

hasInstChngQuorum(r, view_no, quorum) ==
    view_no \in DOMAIN r.instanceChanges /\ Cardinality(r.instanceChanges[view_no]) >= quorum

\* a view change on the first vote
CanViewChangeOnOneVote(r, proposedViewNo) ==
    hasInstChngQuorum(r, proposedViewNo, 1) /\ proposedViewNo > r.viewNo

canViewChange(r, proposedViewNo) ==
    hasInstChngQuorum(r, proposedViewNo, Quorums.view_change) /\ proposedViewNo > r.viewNo

do_view_change_if_possible(r, view_no) ==
    IF canViewChange(r, view_no) THEN startViewChange(r, view_no, FALSE) ELSE r

Raise(r, what) == IF r.raised = NoName THEN [r EXCEPT !.raised = what] ELSE r

start_view_change_if_possible(r, view_no) ==
    IF Cardinality(r.next_view_indications[view_no]) >= Quorums.propagate_primary
    THEN startViewChange(r, view_no, TRUE) ELSE r

\* a VIEW_CHANGE_DONE for a future view is an indication that the node is behind
on_future_view_vchd_msg(r, view_no, frm) ==
    IF ~(view_no > r.viewNo) THEN Raise(r, "AssertionError")
    ELSE start_view_change_if_possible(
             [r EXCEPT !.next_view_indications =
                 Put(@, view_no, (IF view_no \in DOMAIN @ THEN @[view_no] ELSE {}) \cup {frm})],
             view_no)

on_verified_instance_change_msg(r, view_no, frm) ==
    IF hasInstChngFrom(r, view_no, frm) THEN r
    ELSE IF view_no > r.viewNo THEN do_view_change_if_possible(addInstChng(r, view_no, frm), view_no)
    ELSE addInstChng(r, view_no, frm)

\* an INSTANCE_CHANGE whatever the throttler answers
SendUnthrottled(r, view_no, suspicion) ==
    on_verified_instance_change_msg(
        [r EXCEPT !.insChngThrottled = TRUE,
                  !.instanceChangesSent =
                      Append(@, [type |-> INSTANCE_CHANGE, viewNo |-> view_no, reason |-> suspicion])],
        view_no, r.name)

\* the throttler lets the first INSTANCE_CHANGE of a window through;
\* instanceChangesSent is the sequence of messages handed to Node.send
sendInstanceChange(r, view_no, suspicion) ==
    IF r.insChngThrottled THEN r
    ELSE on_verified_instance_change_msg(
             [r EXCEPT !.insChngThrottled = TRUE,
                       !.instanceChangesSent =
                           Append(@, [type |-> INSTANCE_CHANGE, viewNo |-> view_no, reason |-> suspicion])],
             view_no, r.name)

on_master_degradation(r) ==
    do_view_change_if_possible(sendInstanceChange(r, r.viewNo + 1, "PRIMARY_DEGRADED"), r.viewNo + 1)

on_primary_loss(r) ==
    do_view_change_if_possible(sendInstanceChange(r, r.viewNo + 1, "PRIMARY_DISCONNECTED"), r.viewNo + 1)

on_suspicious_primary(r, suspicion) == sendInstanceChange(r, r.viewNo + 1, suspicion)

VoteForCurrentView(r) ==
    sendInstanceChange(r, r.viewNo, "INSTANCE_CHANGE_TIMEOUT")

on_view_change_not_completed_in_time(r) ==
    sendInstanceChange(r, r.viewNo + 1, "INSTANCE_CHANGE_TIMEOUT")

\* an INSTANCE_CHANGE recorded whatever its view
ProcessAnyInstanceChange(r, view_no, frm, degraded) ==
    LET Vote(r1) == IF hasInstChngFrom(r1, view_no, r1.name) THEN r1
                    ELSE IF ~degraded THEN r1
                    ELSE sendInstanceChange(r1, view_no, "PRIMARY_DEGRADED")
    IN  Vote(on_verified_instance_change_msg(r, view_no, frm))

\* degraded is what Monitor.isMasterDegraded answers
process_instance_change_msg(r, view_no, frm, degraded) ==
    IF view_no <= r.viewNo THEN r
    ELSE LET Vote(r1) == IF hasInstChngFrom(r1, view_no, r1.name) THEN r1
                         ELSE IF ~degraded THEN r1
                         ELSE sendInstanceChange(r1, view_no, "PRIMARY_DEGRADED")
         IN  Vote(on_verified_instance_change_msg(r, view_no, frm))

set_defaults(r) ==
    [r EXCEPT !.view_change_done = EmptyDict,
              !.primary_verified = FALSE,
              !.has_view_change_from_primary = FALSE,
              !.has_acceptable_view_change_quorum = FALSE,
              !.accepted_view_change_done_message = << >>,
              !.propagated_view_change_completed = FALSE]

\* Node._check_view_change_completed, run by the timer set in on_view_change_start
check_view_change_completed(r) ==
    LET r1 == [r EXCEPT !.scheduled = @ \ {"check_view_change_completed"}]
    IN  IF ~r.view_change_in_progress THEN r1
        ELSE on_view_change_not_completed_in_time(r1)

(* ------------------------ suspicions ----------------------------------- *)

Suspicion(code, msg, sender) == [type |-> "SUSPICION", code |-> code, node |-> sender, key |-> MsgKey(msg)]

\* the suspicion codes that Node.reportSuspiciousNode passes to the view changer
PrimarySuspicions ==
    {"PPR_DIGEST_WRONG", "PPR_REJECT_WRONG", "PPR_TXN_WRONG", "PPR_STATE_WRONG", "PPR_PLUGIN_EXCEPTION"}

reportSuspicious(r, code, msg, sender) ==
    LET r1 == send(r, Suspicion(code, msg, sender))
    IN  IF code \in PrimarySuspicions THEN on_suspicious_primary(r1, code) ELSE r1

isParticipating(r) == r.mode = "participating"

hasPrimary(r) == r.primaryName # NoName

\* True / False / None of the source become "True" / "False" / "None"
isPrimary(r) ==
    IF r.primaryName = NoName THEN "None"
    ELSE IF r.primaryName = r.name THEN "True" ELSE "False"

is_primary_in_view(r, viewNo) == r.primaryNames[viewNo] = r.name

isPrimaryForMsg(r, msg) ==
    IF msg.viewNo = r.viewNo THEN isPrimary(r)
    ELSE IF is_primary_in_view(r, msg.viewNo) THEN "True" ELSE "False"

isMsgFromPrimary(r, msg, sender) ==
    IF msg.viewNo = r.viewNo THEN r.primaryName = sender
    ELSE r.primaryNames[msg.viewNo] = sender

getPrePrepare(r, key) ==
    IF key \in DOMAIN r.sentPrePrepares THEN r.sentPrePrepares[key]
    ELSE IF key \in DOMAIN r.prePrepares THEN r.prePrepares[key]
    ELSE << >>

hasPrePrepare(r, key) == key \in DOMAIN r.sentPrePrepares \/ key \in DOMAIN r.prePrepares

\* Prepares / Commits: key -> [msg, voters]
addVote(votes, msg, voter) ==
    LET key == MsgKey(msg)
    IN  IF key \in DOMAIN votes
        THEN [votes EXCEPT ![key].voters = @ \cup {voter}]
        ELSE Put(votes, key, [msg |-> msg, voters |-> {voter}])

hasVoteFrom(votes, key, voter) == key \in DOMAIN votes /\ voter \in votes[key].voters

hasQuorum(votes, key, quorum) ==
    key \in DOMAIN votes /\ Cardinality(votes[key].voters) >= quorum

has_sent_prepare(r, key) == hasVoteFrom(r.prepares, key, r.name)

hasCommitted(r, key) == hasVoteFrom(r.commits, key, r.name)

has_prepared(r, key) == hasPrePrepare(r, key) /\ hasQuorum(r.prepares, key, Quorums.prepare)

lastPrePrepareKey(r) ==
    LET sentLast == IF DOMAIN r.sentPrePrepares = {} THEN <<0, 0>>
                    ELSE max_3PC_key(DOMAIN r.sentPrePrepares)
    IN  IF DOMAIN r.prePrepares # {} /\ KeyLt(sentLast, max_3PC_key(DOMAIN r.prePrepares))
        THEN max_3PC_key(DOMAIN r.prePrepares)
        ELSE IF DOMAIN r.sentPrePrepares # {} THEN sentLast ELSE None3PC

last_pp_3pc(r) ==
    LET lk == lastPrePrepareKey(r)
    IN  IF lk # None3PC /\ KeyLt(r.last_ordered_3pc, lk) THEN lk ELSE r.last_ordered_3pc

\* returns "True", "False" or "LogicError"
is_next_pre_prepare(r, view_no, pp_seq_no) ==
    IF view_no = r.viewNo /\ pp_seq_no = 1 THEN "True"
    ELSE LET last == last_pp_3pc(r)
         IN  IF last[1] > view_no THEN "False"
             ELSE IF last[1] < view_no /\ view_no # r.viewNo THEN "LogicError"
             ELSE LET last_pp_seq_no == IF last[1] < view_no THEN 0 ELSE last[2]
                  IN  IF pp_seq_no - last_pp_seq_no > 1 THEN "False" ELSE "True"

isPpSeqNoStable(r, ppSeqNo) ==
    /\ DOMAIN r.checkpoints # {}
    /\ LET first == CHOOSE k \in DOMAIN r.checkpoints :
                        \A o \in DOMAIN r.checkpoints : k[2] <= o[2]
       IN  r.checkpoints[first].isStable /\ r.checkpoints[first].seqNo >= ppSeqNo

\* a check that takes no key for ordered
NothingAlreadyOrdered(r, view_no, pp_seq_no) == FALSE

has_already_ordered(r, view_no, pp_seq_no) ==
    compare_3PC_keys(<<view_no, pp_seq_no>>, r.last_ordered_3pc) >= 0

isPpSeqNoBetweenWaterMarks(r, ppSeqNo) == r.h < ppSeqNo /\ ppSeqNo <= r.H

\* returns "True", "False" or "PlenumValueError"
can_pp_seq_no_be_in_view(r, view_no, pp_seq_no) ==
    IF view_no > r.viewNo THEN "PlenumValueError"
    ELSE IF view_no = r.viewNo THEN "True"
    ELSE IF /\ r.last_prepared_before_view_change # None3PC
            /\ compare_3PC_keys(<<view_no, pp_seq_no>>, r.last_prepared_before_view_change) >= 0
         THEN "True" ELSE "False"

nonFinalisedReqs(r, reqIdr) == {k \in SeqToSet(reqIdr) : k \notin r.requests}

update_watermark_from_3pc(r) ==
    IF r.last_ordered_3pc[1] = r.viewNo THEN SetH(r, r.last_ordered_3pc[2]) ELSE r

(* ------------------------ requesting 3PC messages --------------------- *)

\* a request that is sent again for a key already asked for
RequestMsgAgain(r, field, msg_type, key, stash_data) ==
    [send(r, [type |-> "MESSAGE_REQUEST", msg_type |-> msg_type, key |-> key])
        EXCEPT ![field] = Put(@, key, stash_data)]

\* _request_three_phase_msg on one of the requested_* dicts
RequestMsg(r, field, msg_type, key, stash_data) ==
    IF key \in DOMAIN r[field] THEN r
    ELSE [send(r, [type |-> "MESSAGE_REQUEST", msg_type |-> msg_type, key |-> key])
            EXCEPT ![field] = Put(@, key, stash_data)]

request_pre_prepare(r, key, stash_data) ==
    RequestMsg(r, "requested_pre_prepares", PREPREPARE, key, stash_data)

request_prepare(r, key) == RequestMsg(r, "requested_prepares", PREPARE, key, << >>)

request_commit(r, key) == RequestMsg(r, "requested_commits", COMMIT, key, << >>)

RECURSIVE request_missing_three_phase_messages(_, _, _, _)
request_missing_three_phase_messages(r, view_no, seq_frm, seq_to) ==
    IF seq_frm > seq_to THEN r
    ELSE LET key == <<view_no, seq_frm>>
         IN  request_missing_three_phase_messages(
                 request_commit(request_prepare(request_pre_prepare(r, key, << >>), key), key),
                 view_no, seq_frm + 1, seq_to)

\* the most frequent element of a non-empty sequence, first seen wins a tie
mostCommonElement(elems) ==
    LET Count(e) == Cardinality({i \in DOMAIN elems : elems[i] = e})
        best == CHOOSE i \in DOMAIN elems :
                    /\ \A j \in DOMAIN elems : Count(elems[j]) <= Count(elems[i])
                    /\ \A j \in DOMAIN elems : (Count(elems[j]) = Count(elems[i])) => i <= j
    IN  <<elems[best], Count(elems[best])>>

PrepareState(m) == <<m.digest, m.stateRootHash, m.txnRootHash>>

\* one vote per sender: a later PREPARE of a sender replaces its earlier one
StashedPrepareStates(r, key) ==
    LET q == r.preparesWaitingForPrePrepare[key]
        lastOf(i) == \A j \in DOMAIN q : (q[j][2] = q[i][2]) => j <= i
        firstOf(i) == \A j \in DOMAIN q : (q[j][2] = q[i][2]) => i <= j
        \* dict order is the order of first insertion of each sender
        RECURSIVE build(_)
        build(i) ==
            IF i > Len(q) THEN << >>
            ELSE IF firstOf(i)
                 THEN LET l == CHOOSE j \in DOMAIN q : q[j][2] = q[i][2] /\ lastOf(j)
                      IN  <<PrepareState(q[l][1])>> \o build(i + 1)
                 ELSE build(i + 1)
    IN  build(1)

get_acceptable_stashed_prepare_state(r, key) ==
    mostCommonElement(StashedPrepareStates(r, key))[1]

request_pre_prepare_for_prepare(r, key) ==
    IF key \in DOMAIN r.prePreparesPendingPrevPP THEN r
    ELSE IF Len(r.preparesWaitingForPrePrepare[key]) < Quorums.prepare THEN r
    ELSE LET st == get_acceptable_stashed_prepare_state(r, key)
             found == \E i \in DOMAIN r.prePreparesPendingFinReqs :
                         LET pp == r.prePreparesPendingFinReqs[i][1]
                         IN  MsgKey(pp) = key /\ PrepareState(pp) = st
         IN  IF found THEN r ELSE request_pre_prepare(r, key, st)

(* ------------------------ three-phase commit -------------------------- *)

RECURSIVE handleSync(_, _, _)
RECURSIVE dispatchThreePhaseMsg(_, _, _)
RECURSIVE processPrePrepare(_, _, _)
RECURSIVE processPrepare(_, _, _)
RECURSIVE processCommit(_, _, _)
RECURSIVE addToPrePrepares(_, _)
RECURSIVE addToPrepares(_, _, _)
RECURSIVE addToCommits(_, _, _)
RECURSIVE dequeue_prepares(_, _)
RECURSIVE dequeue_commits(_, _)
RECURSIVE enqueue_prepare(_, _, _)
RECURSIVE process_stashed_pre_prepare_for_time_if_possible(_, _)
RECURSIVE tryOrder(_, _)
RECURSIVE order_3pc_key(_, _)
RECURSIVE addToCheckpoint(_, _, _)
RECURSIVE processStashedCheckpoints(_, _)
RECURSIVE processCheckpoint(_, _, _)
RECURSIVE markCheckPointStable(_, _)
RECURSIVE processStashedMsgsForNewWaterMarks(_)

stashOutsideWatermarks(r, msg, sender) ==
    [r EXCEPT !.stashingWhileOutsideWaterMarks = Append(@, <<msg, sender>>)]

\* Replica3PRouter.handleSync: routes by message type; the field
\* handledOutsideWatermarks observes hand-overs made outside (h, H]
handleSync(r, msg, sender) ==
    IF r.raised # NoName THEN r
    ELSE LET r1 == IF isPpSeqNoBetweenWaterMarks(r, msg.ppSeqNo) THEN r
                   ELSE [r EXCEPT !.handledOutsideWatermarks = @ \cup {<<msg.type, MsgKey(msg)>>}]
         IN  CASE msg.type = PREPREPARE -> processPrePrepare(r1, msg, sender)
               [] msg.type = PREPARE -> processPrepare(r1, msg, sender)
               [] msg.type = COMMIT -> processCommit(r1, msg, sender)
               [] OTHER -> r1

dispatchThreePhaseMsg(r, msg, sender) ==
    IF r.raised # NoName THEN r
    ELSE IF isPpSeqNoStable(r, msg.ppSeqNo) THEN r
    ELSE IF has_already_ordered(r, msg.viewNo, msg.ppSeqNo) THEN r
    ELSE IF isPpSeqNoBetweenWaterMarks(r, msg.ppSeqNo)
         THEN LET c == can_pp_seq_no_be_in_view(r, msg.viewNo, msg.ppSeqNo)
              IN  IF c = "PlenumValueError" THEN Raise(r, c)
                  ELSE IF c = "True" THEN handleSync(r, msg, sender)
                  ELSE r
         ELSE stashOutsideWatermarks(r, msg, sender)

can_process_since_view_change_in_progress(r, msg) ==
    /\ msg.type = COMMIT
    /\ r.last_prepared_before_view_change # None3PC
    /\ compare_3PC_keys(MsgKey(msg), r.last_prepared_before_view_change) >= 0

\* every message is dispatched, a primary or none
DispatchAtOnce(r, msg, sender) == dispatchThreePhaseMsg(r, msg, sender)

processThreePhaseMsg(r, msg, sender) ==
    IF isPrimary(r) = "None" /\ ~can_process_since_view_change_in_progress(r, msg)
    THEN [r EXCEPT !.postElectionMsgs = Append(@, <<msg, sender>>)]
    ELSE dispatchThreePhaseMsg(r, msg, sender)

RECURSIVE processPostElectionMsgs(_)
processPostElectionMsgs(r) ==
    IF r.postElectionMsgs = << >> \/ r.raised # NoName THEN r
    ELSE LET item == Head(r.postElectionMsgs)
         IN  processPostElectionMsgs(
                 dispatchThreePhaseMsg([r EXCEPT !.postElectionMsgs = Tail(@)], item[1], item[2]))

ACCEPTABLE_DEVIATION_PREPREPARE_SECS == 0

Abs(x) == IF x < 0 THEN -x ELSE x

is_pre_prepare_time_correct(r, pp) ==
    /\ (r.last_accepted_pre_prepare_time = NoTime \/ pp.ppTime >= r.last_accepted_pre_prepare_time)
    /\ Abs(pp.ppTime - r.utc_epoch) <= ACCEPTABLE_DEVIATION_PREPREPARE_SECS

is_pre_prepare_time_acceptable(r, pp) ==
    LET key == MsgKey(pp)
    IN  \/ key \in DOMAIN r.requested_pre_prepares
        \/ is_pre_prepare_time_correct(r, pp)
        \/ /\ key \in DOMAIN r.pre_prepares_stashed_for_incorrect_time
           /\ r.pre_prepares_stashed_for_incorrect_time[key][3]

\* the PP_CHECK_* outcome of _can_process_pre_prepare, "None" when acceptable
can_process_pre_prepare(r, pp, sender) ==
    IF ~isMsgFromPrimary(r, pp, sender) THEN "PP_CHECK_NOT_FROM_PRIMARY"
    ELSE IF isPrimaryForMsg(r, pp) = "True" THEN "PP_CHECK_TO_PRIMARY"
    ELSE IF MsgKey(pp) \in DOMAIN r.prePrepares THEN "PP_CHECK_DUPLICATE"
    ELSE IF ~isParticipating(r) THEN "None"
    ELSE IF compare_3PC_keys(MsgKey(pp), last_pp_3pc(r)) > 0 THEN "PP_CHECK_OLD"
    ELSE IF nonFinalisedReqs(r, pp.reqIdr) # {} THEN "PP_CHECK_REQUEST_NOT_FINALIZED"
    ELSE IF ~is_pre_prepare_time_acceptable(r, pp) THEN "PP_CHECK_WRONG_TIME"
    ELSE LET nxt == is_next_pre_prepare(r, pp.viewNo, pp.ppSeqNo)
         IN  IF nxt = "LogicError" THEN nxt
             ELSE IF nxt = "False" THEN "PP_CHECK_NOT_NEXT"
             ELSE "None"

enqueue_pre_prepare(r, pp, sender, nonFinReqs) ==
    IF nonFinReqs # {}
    THEN [r EXCEPT !.prePreparesPendingFinReqs = Append(@, <<pp, sender, nonFinReqs>>)]
    ELSE [r EXCEPT !.prePreparesPendingPrevPP = Put(@, MsgKey(pp), <<pp, sender>>)]

get_lowest_probable_prepared_certificate_in_view(r, view_no) ==
    LET seq_no_pp == {k[2] : k \in {x \in DOMAIN r.prePreparesPendingPrevPP : x[1] = view_no}}
        seq_no_p == {k[2] : k \in {x \in DOMAIN r.preparesWaitingForPrePrepare :
                        x[1] = view_no /\ Len(r.preparesWaitingForPrePrepare[x]) >= Quorums.prepare}}
        both == seq_no_pp \cap seq_no_p
    IN  IF both = {} THEN 0 ELSE CHOOSE n \in both : \A m \in both : n <= m

setup_last_ordered_for_non_master(r) ==
    IF ~r.isMaster /\ r.last_ordered_3pc[2] = 0 /\ isPrimary(r) # "True"
    THEN LET lowest_prepared == get_lowest_probable_prepared_certificate_in_view(r, r.viewNo)
         IN  IF lowest_prepared # 0
             THEN update_watermark_from_3pc(
                      [r EXCEPT !.last_ordered_3pc = <<r.viewNo, lowest_prepared - 1>>])
             ELSE r
    ELSE r

\* the PP_APPLY_* outcome of _apply_pre_prepare, "None" when it applies;
\* every finalised request passes dynamic validation
apply_pre_prepare_result(r, pp) ==
    LET after == IF r.isMaster THEN r.applied \o pp.reqIdr ELSE r.applied
    IN  IF Len(pp.reqIdr) # pp.discarded THEN "PP_APPLY_REJECT_WRONG"
        ELSE IF batchDigest(pp.reqIdr) # pp.digest THEN "PP_APPLY_WRONG_DIGEST"
        ELSE IF r.isMaster /\ pp.stateRootHash # StateRoot(after) THEN "PP_APPLY_WRONG_STATE"
        ELSE IF r.isMaster /\ pp.txnRootHash # TxnRoot(after) THEN "PP_APPLY_ROOT_HASH_MISMATCH"
        ELSE "None"

trackBatches(r, pp, prevStateRootHash) ==
    [r EXCEPT !.batches = Put(@, MsgKey(pp), <<pp.discarded, pp.ppTime, prevStateRootHash>>)]

PPSuspicion(code) ==
    CASE code = "PP_APPLY_REJECT_WRONG" -> "PPR_REJECT_WRONG"
      [] code = "PP_APPLY_WRONG_DIGEST" -> "PPR_DIGEST_WRONG"
      [] code = "PP_APPLY_WRONG_STATE" -> "PPR_STATE_WRONG"
      [] code = "PP_APPLY_ROOT_HASH_MISMATCH" -> "PPR_TXN_WRONG"
      [] code = "PP_CHECK_NOT_FROM_PRIMARY" -> "PPR_FRM_NON_PRIMARY"
      [] code = "PP_CHECK_TO_PRIMARY" -> "PPR_TO_PRIMARY"
      [] code = "PP_CHECK_DUPLICATE" -> "DUPLICATE_PPR_SENT"
      [] OTHER -> "PPR_TIME_WRONG"

\* the requests of the batch are applied to the ledger and the state, uncommitted
ApplyReqs(r, pp) == IF r.isMaster THEN [r EXCEPT !.applied = @ \o pp.reqIdr] ELSE r

\* the requests applied stay in the uncommitted ledger
KeepApplied(r, reqCount) == r

\* Replica.revert: the last reqCount uncommitted txns are discarded, and the
\* head of the state, which is told by the txns applied, goes back with them
revert(r, reqCount) == [r EXCEPT !.applied = SubSeq(@, 1, Len(@) - reqCount)]

process_valid_preprepare(r, pp, sender) ==
    IF ~isParticipating(r) THEN r
    ELSE LET pre_state_root == IF r.isMaster THEN StateRoot(r.applied) ELSE NoneRoot
             why_not_applied == apply_pre_prepare_result(r, pp)
             r1 == ApplyReqs(r, pp)
         IN  IF why_not_applied # "None"
             THEN reportSuspicious(IF r.isMaster THEN revert(r1, Len(pp.reqIdr)) ELSE r1,
                                   PPSuspicion(why_not_applied), pp, sender)
             ELSE trackBatches(addToPrePrepares(r1, pp), pp, pre_state_root)

processPrePrepare(r, pp, sender) ==
    LET On(why_not) ==
          CASE why_not = "None" -> process_valid_preprepare(r, pp, sender)
          [] why_not = "LogicError" -> Raise(r, why_not)
          [] why_not \in {"PP_CHECK_NOT_FROM_PRIMARY", "PP_CHECK_TO_PRIMARY", "PP_CHECK_DUPLICATE"} ->
                reportSuspicious(r, PPSuspicion(why_not), pp, sender)
          [] why_not = "PP_CHECK_OLD" -> r
          [] why_not = "PP_CHECK_REQUEST_NOT_FINALIZED" ->
                LET non_fin_reqs == nonFinalisedReqs(r, pp.reqIdr)
                IN  send(enqueue_pre_prepare(r, pp, sender, non_fin_reqs),
                         [type |-> "REQUEST_PROPAGATES", reqs |-> non_fin_reqs])
          [] why_not = "PP_CHECK_NOT_NEXT" ->
                LET last == last_pp_3pc(r)
                    seq_frm == IF pp.viewNo = last[1] THEN last[2] + 1 ELSE 1
                    seq_to == pp.ppSeqNo - 1
                    r1 == IF /\ pp.viewNo >= last[1]
                             /\ (r.isMaster \/ r.last_ordered_3pc[2] # 0)
                             /\ seq_to >= seq_frm
                             /\ seq_frm >= pp.ppSeqNo - CHK_FREQ + 1
                          THEN request_missing_three_phase_messages(r, pp.viewNo, seq_frm, seq_to)
                          ELSE r
                IN  setup_last_ordered_for_non_master(enqueue_pre_prepare(r1, pp, sender, {}))
          [] OTHER ->
                reportSuspicious(
                    [r EXCEPT !.pre_prepares_stashed_for_incorrect_time =
                                  Put(@, MsgKey(pp), <<pp, sender, FALSE>>)],
                    "PPR_TIME_WRONG", pp, sender)
    IN  On(can_process_pre_prepare(r, pp, sender))

MakePrepare(pp) ==
    [type |-> PREPARE, viewNo |-> pp.viewNo, ppSeqNo |-> pp.ppSeqNo, ppTime |-> pp.ppTime,
     digest |-> pp.digest, stateRootHash |-> pp.stateRootHash, txnRootHash |-> pp.txnRootHash]

MakeCommit(p) == [type |-> COMMIT, viewNo |-> p.viewNo, ppSeqNo |-> p.ppSeqNo]

canPrepare(r, pp) == isParticipating(r) /\ ~has_sent_prepare(r, MsgKey(pp))

doPrepare(r, pp) == addToPrepares(send(r, MakePrepare(pp)), MakePrepare(pp), r.name)

tryPrepare(r, pp) == IF canPrepare(r, pp) THEN doPrepare(r, pp) ELSE r

addToPrePrepares(r, pp) ==
    LET key == MsgKey(pp)
        r1 == [SetLastPrePrepareSeqNo([r EXCEPT !.prePrepares = Put(@, key, pp),
                                                 !.acceptedPrePrepares = @ \cup {pp}], pp.ppSeqNo)
                 EXCEPT !.last_accepted_pre_prepare_time = pp.ppTime]
    IN  tryPrepare(dequeue_commits(dequeue_prepares(r1, key), key), pp)

dequeue_prepares(r, key) ==
    IF key \notin DOMAIN r.preparesWaitingForPrePrepare THEN r
    ELSE IF r.raised # NoName THEN r
    ELSE IF r.preparesWaitingForPrePrepare[key] = << >>
         THEN [r EXCEPT !.preparesWaitingForPrePrepare = Pop(@, key)]
         ELSE LET item == Head(r.preparesWaitingForPrePrepare[key])
                  r1 == [r EXCEPT !.preparesWaitingForPrePrepare[key] = Tail(@)]
              IN  dequeue_prepares(handleSync(r1, item[1], item[2]), key)

RECURSIVE dequeue_commits_loop(_, _)
dequeue_commits_loop(r, key) ==
    IF key \notin DOMAIN r.commitsWaitingForPrepare \/ r.raised # NoName THEN r
    ELSE IF r.commitsWaitingForPrepare[key] = << >>
         THEN [r EXCEPT !.commitsWaitingForPrepare = Pop(@, key)]
    ELSE LET item == Head(r.commitsWaitingForPrepare[key])
             r1 == [r EXCEPT !.commitsWaitingForPrepare[key] = Tail(@)]
         IN  dequeue_commits_loop(handleSync(r1, item[1], item[2]), key)

dequeue_commits(r, key) ==
    IF key \in DOMAIN r.commitsWaitingForPrepare /\ has_prepared(r, key)
    THEN dequeue_commits_loop(r, key)
    ELSE r

enqueue_prepare(r, prepare, sender) ==
    LET key == MsgKey(prepare)
        q == IF key \in DOMAIN r.preparesWaitingForPrePrepare
             THEN r.preparesWaitingForPrePrepare[key] ELSE << >>
        r1 == [r EXCEPT !.preparesWaitingForPrePrepare = Put(@, key, Append(q, <<prepare, sender>>))]
    IN  IF key \notin DOMAIN r1.pre_prepares_stashed_for_incorrect_time
        THEN IF r1.isMaster \/ r1.last_ordered_3pc[2] # 0
             THEN request_pre_prepare_for_prepare(r1, key)
             ELSE r1
        ELSE process_stashed_pre_prepare_for_time_if_possible(r1, key)

process_stashed_pre_prepare_for_time_if_possible(r, key) ==
    LET q == r.preparesWaitingForPrePrepare[key]
        times == [i \in DOMAIN q |-> q[i][1].ppTime]
    IN  IF Len(q) > f /\ mostCommonElement(times)[2] >= Quorums.timestamp
        THEN LET st == r.pre_prepares_stashed_for_incorrect_time[key]
             IN  IF st[3] THEN r
                 ELSE handleSync(
                          [r EXCEPT !.pre_prepares_stashed_for_incorrect_time[key] = <<st[1], st[2], TRUE>>],
                          st[1], st[2])
        ELSE r

\* the outcome of validatePrepare: "True", "False" (enqueued) or a suspicion code
\* a PREPARE validated without a look at the votes held
ValidateUnseen(r, prepare, sender) ==
    LET key == MsgKey(prepare)
        primaryStatus == isPrimaryForMsg(r, prepare)
        ppReq == getPrePrepare(r, key)
        noPP == ~hasPrePrepare(r, key)
    IN  IF isMsgFromPrimary(r, prepare, sender) THEN "PR_FRM_PRIMARY"
        ELSE IF primaryStatus = "False" /\ noPP THEN "False"
        ELSE IF primaryStatus = "True" /\ noPP THEN "UNKNOWN_PR_SENT"
        ELSE IF primaryStatus = "None" /\ noPP THEN "False"
        ELSE IF prepare.digest # ppReq.digest THEN "PR_DIGEST_WRONG"
        ELSE IF prepare.stateRootHash # ppReq.stateRootHash THEN "PR_STATE_WRONG"
        ELSE IF prepare.txnRootHash # ppReq.txnRootHash THEN "PR_TXN_WRONG"
        ELSE "True"

validatePrepareResult(r, prepare, sender) ==
    LET key == MsgKey(prepare)
        primaryStatus == isPrimaryForMsg(r, prepare)
        ppReq == getPrePrepare(r, key)
        noPP == ~hasPrePrepare(r, key)
    IN  IF isMsgFromPrimary(r, prepare, sender) THEN "PR_FRM_PRIMARY"
        ELSE IF primaryStatus # "None" /\ hasVoteFrom(r.prepares, key, sender) THEN "DUPLICATE_PR_SENT"
        ELSE IF primaryStatus = "False" /\ noPP THEN "False"
        ELSE IF primaryStatus = "True" /\ noPP THEN "UNKNOWN_PR_SENT"
        ELSE IF primaryStatus = "None" /\ noPP THEN "False"
        ELSE IF prepare.digest # ppReq.digest THEN "PR_DIGEST_WRONG"
        ELSE IF prepare.stateRootHash # ppReq.stateRootHash THEN "PR_STATE_WRONG"
        ELSE IF prepare.txnRootHash # ppReq.txnRootHash THEN "PR_TXN_WRONG"
        ELSE "True"

processPrepare(r, prepare, sender) ==
    IF isPpSeqNoStable(r, prepare.ppSeqNo) THEN r
    ELSE LET v == validatePrepareResult(r, prepare, sender)
         IN  CASE v = "True" -> addToPrepares(r, prepare, sender)
               [] v = "False" -> setup_last_ordered_for_non_master(enqueue_prepare(r, prepare, sender))
               [] OTHER -> reportSuspicious(r, v, prepare, sender)

\* COMMIT without a look at the PREPAREs held
CommitUnprepared(r, prepare) == isParticipating(r) /\ ~hasCommitted(r, MsgKey(prepare))

canCommit(r, prepare) ==
    /\ isParticipating(r)
    /\ hasQuorum(r.prepares, MsgKey(prepare), Quorums.prepare)
    /\ ~hasCommitted(r, MsgKey(prepare))

doCommit(r, prepare) == addToCommits(send(r, MakeCommit(prepare)), MakeCommit(prepare), r.name)

tryCommit(r, prepare) == IF canCommit(r, prepare) THEN doCommit(r, prepare) ELSE r

addToPrepares(r, prepare, sender) ==
    tryCommit(dequeue_commits([r EXCEPT !.prepares = addVote(@, prepare, sender)], MsgKey(prepare)),
              prepare)

\* the outcome of validateCommit: "True", "Enqueue", "False" or a suspicion code
validateCommitResult(r, commit, sender) ==
    LET key == MsgKey(commit)
    IN  IF ~hasPrePrepare(r, key) THEN "Enqueue"
        ELSE IF /\ key \notin DOMAIN r.prepares
                /\ key \notin DOMAIN r.sentPrePrepares
                /\ key \notin DOMAIN r.preparesWaitingForPrePrepare
             THEN "False"
        ELSE IF hasVoteFrom(r.commits, key, sender) THEN "DUPLICATE_CM_SENT"
        ELSE "True"

enqueue_commit(r, commit, sender) ==
    LET key == MsgKey(commit)
        q == IF key \in DOMAIN r.commitsWaitingForPrepare
             THEN r.commitsWaitingForPrepare[key] ELSE << >>
    IN  [r EXCEPT !.commitsWaitingForPrepare = Put(@, key, Append(q, <<commit, sender>>))]

processCommit(r, commit, sender) ==
    IF isPpSeqNoStable(r, commit.ppSeqNo) THEN r
    ELSE LET v == validateCommitResult(r, commit, sender)
         IN  CASE v = "True" -> addToCommits(r, commit, sender)
               [] v = "Enqueue" -> enqueue_commit(r, commit, sender)
               [] v = "False" -> r
               [] OTHER -> reportSuspicious(r, v, commit, sender)

addToCommits(r, commit, sender) ==
    tryOrder([r EXCEPT !.commits = addVote(@, commit, sender)], commit)

\* all_prev_ordered without its look at the earlier keys
AllPrevOrderedUnchecked(r, commit) == TRUE

all_prev_ordered(r, commit) ==
    \/ r.last_ordered_3pc = <<commit.viewNo, commit.ppSeqNo - 1>>
    \/ LET toCheck == (DOMAIN r.sentPrePrepares) \cup (DOMAIN r.prePrepares)
                          \cup (DOMAIN r.prepares) \cup (DOMAIN r.commits)
       IN  \A k \in toCheck :
               /\ ~(k[1] < commit.viewNo /\ k \notin SeqToSet(r.ordered))
               /\ ~(k[1] = commit.viewNo /\ k[2] < commit.ppSeqNo /\ k \notin SeqToSet(r.ordered))

\* "True", "False" or "Stash" (out of order: the COMMIT is stashed)
\* a check that lets no key be ordered
CannotOrder(r, commit) == "False"

canOrderResult(r, commit) ==
    IF ~hasQuorum(r.commits, MsgKey(commit), Quorums.commit) THEN "False"
    ELSE IF has_already_ordered(r, commit.viewNo, commit.ppSeqNo) THEN "False"
    ELSE IF commit.ppSeqNo > 1 /\ ~all_prev_ordered(r, commit) THEN "Stash"
    ELSE "True"

StashOutOfOrder(r, commit) ==
    IF MsgKey(commit) \in SeqToSet(r.stashed_out_of_order_commits) THEN r
    ELSE [r EXCEPT !.stashed_out_of_order_commits = Append(@, MsgKey(commit))]

tryOrder(r, commit) ==
    LET c == canOrderResult(r, commit)
    IN  CASE c = "True" -> order_3pc_key(r, MsgKey(commit))
          [] c = "Stash" -> StashOutOfOrder(r, commit)
          [] OTHER -> r

(* ------------------------ node: Ordered, catch-up start --------------- *)

REPLY == "REPLY"

NoReply == << >>

REQACK == "REQACK"

\* Node.getReplyFromLedger: the transaction the ledger holds under seq_no
getReplyFromLedger(r, seq_no) ==
    IF seq_no \in 1..r.committedSize
    THEN [type |-> REPLY, txn |-> r.applied[seq_no], seqNo |-> seq_no]
    ELSE NoReply

isProcessingReq(r, key) == key \in DOMAIN r.requestSender

\* Node.updateSeqNoMap for the transactions first..last of the ledger
RECURSIVE updateSeqNoMap(_, _, _)
updateSeqNoMap(r, first, last) ==
    IF first > last THEN r
    ELSE updateSeqNoMap([r EXCEPT !.seqNoDB = Put(@, r.applied[first], first)], first + 1, last)

sendReplyToClient(r, seq_no) ==
    LET reqKey == r.applied[seq_no]
    IN  IF isProcessingReq(r, reqKey)
        THEN [r EXCEPT !.toClient = IF r.requestSender[reqKey] # NoName
                                    THEN @ \cup {<<getReplyFromLedger(r, seq_no), r.requestSender[reqKey]>>}
                                    ELSE @,
                       !.requestSender = Pop(@, reqKey)]
        ELSE r

RECURSIVE sendRepliesToClients(_, _, _)
sendRepliesToClients(r, first, last) ==
    IF first > last THEN r
    ELSE sendRepliesToClients(sendReplyToClient(r, first), first + 1, last)

\* Node.executeBatch with the default executer: the first count uncommitted
\* transactions are committed
commitAndSendReplies(r, count) ==
    LET first == r.committedSize + 1
        last == r.committedSize + count
    IN  sendRepliesToClients(updateSeqNoMap([r EXCEPT !.committedSize = last], first, last), first, last)

\* Node.processOrdered: the master instance's batch is committed to the ledger
\* the master's Ordered commits the batch's transactions, which the ledger
\* must hold uncommitted
processOrdered(r, msg) ==
    IF ~r.isMaster THEN r
    ELSE IF r.committedSize + Len(msg.reqIdr) > Len(r.applied) THEN Raise(r, "LogicError")
    ELSE commitAndSendReplies(r, Len(msg.reqIdr))

\* the Ordered is processed whatever the mode of the node
ProcessWhateverMode(r, msg) == processOrdered(r, msg)

try_processing_ordered(r, msg) ==
    IF isParticipating(r) THEN processOrdered(r, msg)
    ELSE [r EXCEPT !.stashedOrderedReqs = Append(@, msg)]

\* the Ordered messages waiting in the outBox are taken out and processed
RECURSIVE ProcessOrderedIn(_, _)
ProcessOrderedIn(r, msgs) ==
    IF msgs = << >> THEN r
    ELSE ProcessOrderedIn(IF Head(msgs).type = ORDERED THEN try_processing_ordered(r, Head(msgs)) ELSE r,
                          Tail(msgs))

IsNotOrdered(m) == m.type # ORDERED

force_process_ordered(r) ==
    ProcessOrderedIn([r EXCEPT !.outBox = SelectSeq(@, IsNotOrdered)], r.outBox)

RECURSIVE revert_unordered_batches(_)
revert_unordered_batches(r) ==
    IF DOMAIN r.batches = {} THEN r
    ELSE LET key == max_3PC_key(DOMAIN r.batches)
         IN  IF compare_3PC_keys(r.last_ordered_3pc, key) > 0
             THEN LET count == r.batches[key][1]
                  IN  revert_unordered_batches(
                          [r EXCEPT !.batches = Pop(@, key),
                                    !.applied = SubSeq(@, 1, Len(@) - count)])
             ELSE r

start_catchup(r) ==
    IF r.mode = "starting" THEN r
    ELSE LET r1 == force_process_ordered(r)
             r2 == IF r1.isMaster THEN revert_unordered_batches(r1) ELSE r1
         IN  [r2 EXCEPT !.mode = "starting", !.catchupStarted = TRUE]

(* ------------------------ ordering and checkpoints --------------------- *)

MakeOrdered(pp) ==
    [type |-> ORDERED, viewNo |-> pp.viewNo, reqIdr |-> SubSeq(pp.reqIdr, 1, pp.discarded),
     ppSeqNo |-> pp.ppSeqNo, ppTime |-> pp.ppTime,
     stateRootHash |-> pp.stateRootHash, txnRootHash |-> pp.txnRootHash]

\* what the replica ordered at a key, kept for the record of its Ordered messages
\* prev is last_ordered_3pc as it stood when the key was ordered
OrderedEntry(r, pp) ==
    [viewNo |-> pp.viewNo, ppSeqNo |-> pp.ppSeqNo, digest |-> pp.digest,
     stateRootHash |-> pp.stateRootHash, txnRootHash |-> pp.txnRootHash,
     prev |-> r.last_ordered_3pc]

addToOrdered(r, key) ==
    [r EXCEPT !.ordered = IF key \in SeqToSet(@) THEN @ ELSE Append(@, key),
              !.last_ordered_3pc = key,
              !.requested_pre_prepares = Pop(@, key),
              !.requested_prepares = Pop(@, key),
              !.requested_commits = Pop(@, key)]

IsNotIn(reqs) == [k \in Reqs |-> k \notin reqs]

discard_ordered_req_keys(r, pp) ==
    LET keep == IsNotIn(SeqToSet(pp.reqIdr))
        Keep(k) == keep[k]
    IN  [r EXCEPT !.requestQueue = SelectSeq(@, Keep)]

order_3pc_key(r, key) ==
    IF ~hasPrePrepare(r, key) THEN Raise(r, "ValueError")
    ELSE LET pp == getPrePrepare(r, key)
             r1 == discard_ordered_req_keys(addToOrdered(r, key), pp)
             r2 == [send(r1, MakeOrdered(pp)) EXCEPT !.orderedLog = Append(@, OrderedEntry(r, pp))]
         IN  addToCheckpoint(r2, pp.ppSeqNo, pp.digest)

NoDigest == << >>

CheckpointState(seqNo, digests, digest, receivedDigests, isStable) ==
    [seqNo |-> seqNo, digests |-> digests, digest |-> digest,
     receivedDigests |-> receivedDigests, isStable |-> isStable]

CheckpointDigest(digests) == <<"sha256">> \o digests

CeilDiv(a, b) == (a + b - 1) \div b

MakeCheckpoint(viewNo, s, e, digest) ==
    [type |-> CHECKPOINT, viewNo |-> viewNo, seqNoStart |-> s, seqNoEnd |-> e, digest |-> digest]

\* a CHECKPOINT at the end of the interval whatever it holds
CheckpointAtEnd(r, ppSeqNo, digest) ==
    LET found == {k \in DOMAIN r.checkpoints : k[1] <= ppSeqNo /\ ppSeqNo <= k[2]}
        key == IF found # {}
               THEN CHOOSE k \in found : \A o \in found : k[2] <= o[2]
               ELSE <<ppSeqNo, CeilDiv(ppSeqNo, CHK_FREQ) * CHK_FREQ>>
        state == IF found # {}
                 THEN [r.checkpoints[key] EXCEPT !.digests = Append(@, digest), !.seqNo = ppSeqNo]
                 ELSE CheckpointState(ppSeqNo, <<digest>>, NoDigest, EmptyDict, FALSE)
        r1 == [r EXCEPT !.checkpoints = Put(@, key, state)]
        done == [state EXCEPT !.digest = CheckpointDigest(state.digests), !.digests = << >>]
        r2 == send([r1 EXCEPT !.checkpoints[key] = done],
                   MakeCheckpoint(r.viewNo, key[1], key[2], done.digest))
    IN  IF state.seqNo = key[2] THEN processStashedCheckpoints(r2, key) ELSE r1

addToCheckpoint(r, ppSeqNo, digest) ==
    LET found == {k \in DOMAIN r.checkpoints : k[1] <= ppSeqNo /\ ppSeqNo <= k[2]}
        key == IF found # {}
               THEN CHOOSE k \in found : \A o \in found : k[2] <= o[2]
               ELSE <<ppSeqNo, CeilDiv(ppSeqNo, CHK_FREQ) * CHK_FREQ>>
        state == IF found # {}
                 THEN [r.checkpoints[key] EXCEPT !.digests = Append(@, digest), !.seqNo = ppSeqNo]
                 ELSE CheckpointState(ppSeqNo, <<digest>>, NoDigest, EmptyDict, FALSE)
        r1 == [r EXCEPT !.checkpoints = Put(@, key, state)]
        done == [state EXCEPT !.digest = CheckpointDigest(state.digests), !.digests = << >>]
        r2 == send([r1 EXCEPT !.checkpoints[key] = done],
                   MakeCheckpoint(r.viewNo, key[1], key[2], done.digest))
    IN  IF state.seqNo = key[2]
        THEN processStashedCheckpoints(IF Len(state.digests) = CHK_FREQ THEN r2 ELSE r1, key)
        ELSE r1

\* stashedRecvdCheckpoints: <<viewNo, seqNoStart, seqNoEnd>> -> (sender -> Checkpoint)
stashCheckpoint(r, ck, sender) ==
    LET key == <<ck.viewNo, ck.seqNoStart, ck.seqNoEnd>>
        old == IF key \in DOMAIN r.stashedRecvdCheckpoints
               THEN r.stashedRecvdCheckpoints[key] ELSE EmptyDict
    IN  [r EXCEPT !.stashedRecvdCheckpoints = Put(@, key, Put(old, sender, ck))]

remove_stashed_checkpoints(r, till) ==
    [r EXCEPT !.stashedRecvdCheckpoints =
        PopAll(@, {k \in DOMAIN @ : k[1] < till[1] \/ (k[1] = till[1] /\ k[3] <= till[2])})]

stashed_checkpoints_with_quorum(r) ==
    {k[3] : k \in {x \in DOMAIN r.stashedRecvdCheckpoints :
                      /\ x[1] = r.viewNo
                      /\ Cardinality(DOMAIN r.stashedRecvdCheckpoints[x]) >= Quorums.checkpoint}}

SetMax(S) == CHOOSE x \in S : \A y \in S : y <= x

\* catch-up as soon as STASHED_CHECKPOINTS_BEFORE_CATCHUP checkpoints are stashed
CatchupAtOnce(r) ==
    LET ends == stashed_checkpoints_with_quorum(r)
    IN  IF Cardinality(ends) >= STASHED_CHECKPOINTS_BEFORE_CATCHUP
        THEN LET r1 == SetH(r, SetMax(ends))
             IN  IF r1.isMaster /\ isPrimary(r1) # "True" THEN start_catchup(r1) ELSE r1
        ELSE r

start_catchup_if_needed(r) ==
    LET ends == stashed_checkpoints_with_quorum(r)
        first == CHOOSE k \in DOMAIN r.checkpoints : \A o \in DOMAIN r.checkpoints : k[2] <= o[2]
        unaligned == /\ DOMAIN r.checkpoints # {}
                     /\ first[1] % CHK_FREQ # 0
                     /\ r.checkpoints[first].seqNo = first[2]
                     /\ first[2] \in ends
        lag_in_checkpoints == Cardinality(ends) - (IF unaligned THEN 1 ELSE 0)
    IN  IF lag_in_checkpoints > STASHED_CHECKPOINTS_BEFORE_CATCHUP
        THEN LET r1 == SetH(r, SetMax(ends))
             IN  IF r1.isMaster /\ isPrimary(r1) # "True" THEN start_catchup(r1) ELSE r1
        ELSE r

\* stable with the first CHECKPOINT recorded
StableAtOnce(r, key) == markCheckPointStable(r, r.checkpoints[key].seqNo)

checkIfCheckpointStable(r, key) ==
    IF Cardinality(DOMAIN r.checkpoints[key].receivedDigests) >= Quorums.checkpoint
    THEN markCheckPointStable(r, r.checkpoints[key].seqNo)
    ELSE r

\* processCheckpoint; whether the message was stashed again shows in stashedRecvdCheckpoints
processCheckpoint(r, msg, sender) ==
    LET key == <<msg.seqNoStart, msg.seqNoEnd>>
    IN  IF isPpSeqNoStable(r, msg.seqNoEnd) THEN r
        ELSE IF key \notin DOMAIN r.checkpoints \/ r.checkpoints[key].digest = NoDigest
             THEN start_catchup_if_needed(stashCheckpoint(r, msg, sender))
        ELSE IF r.isMaster /\ r.checkpoints[key].digest # msg.digest THEN r
        ELSE checkIfCheckpointStable(
                 [r EXCEPT !.checkpoints[key].receivedDigests = Put(@, sender, msg.digest)], key)

RankOrder(names) ==
    LET RECURSIVE build(_)
        build(S) == IF S = {} THEN << >>
                    ELSE LET m == CHOOSE n \in S : \A o \in S : NodeRank[n] <= NodeRank[o]
                         IN  <<m>> \o build(S \ {m})
    IN  build(names)

RECURSIVE StashedCheckpointsLoop(_, _, _)
StashedCheckpointsLoop(r, skey, senders) ==
    IF senders = << >> THEN r
    ELSE LET sender == Head(senders)
         IN  IF skey \in DOMAIN r.stashedRecvdCheckpoints
                    /\ sender \in DOMAIN r.stashedRecvdCheckpoints[skey]
             THEN LET ck == r.stashedRecvdCheckpoints[skey][sender]
                      r1 == [r EXCEPT !.stashedRecvdCheckpoints[skey] = Pop(@, sender)]
                  IN  StashedCheckpointsLoop(processCheckpoint(r1, ck, sender), skey, Tail(senders))
             ELSE StashedCheckpointsLoop(r, skey, Tail(senders))

processStashedCheckpoints(r, key) ==
    LET r1 == remove_stashed_checkpoints(r, <<r.viewNo, 0>>)
        skey == <<r.viewNo, key[1], key[2]>>
        DropEmpty(r2) == IF skey \in DOMAIN r2.stashedRecvdCheckpoints
                                /\ DOMAIN r2.stashedRecvdCheckpoints[skey] = {}
                         THEN [r2 EXCEPT !.stashedRecvdCheckpoints = Pop(@, skey)]
                         ELSE r2
    IN  IF skey \notin DOMAIN r1.stashedRecvdCheckpoints THEN r1
        ELSE DropEmpty(StashedCheckpointsLoop(r1, skey, RankOrder(DOMAIN r1.stashedRecvdCheckpoints[skey])))

compact_ordered(r) ==
    LET RECURSIVE drop(_)
        drop(o) == IF o # << >> /\ Head(o)[1] < r.viewNo - 1 THEN drop(Tail(o)) ELSE o
    IN  [r EXCEPT !.ordered = drop(@)]

\* _gc; Requests.free takes the request out of the node's request store
gc(r, till3PCKey) ==
    LET tpcKeys == {k \in (DOMAIN r.sentPrePrepares) \cup (DOMAIN r.prePrepares) :
                       compare_3PC_keys(till3PCKey, k) <= 0}
        reqKeys == UNION {SeqToSet(getPrePrepare(r, k).reqIdr) : k \in tpcKeys}
    IN  compact_ordered(
            [r EXCEPT !.sentPrePrepares = PopAll(@, tpcKeys),
                      !.prePrepares = PopAll(@, tpcKeys),
                      !.prepares = PopAll(@, tpcKeys),
                      !.commits = PopAll(@, tpcKeys),
                      !.batches = PopAll(@, tpcKeys),
                      !.requested_pre_prepares = PopAll(@, tpcKeys),
                      !.requested_prepares = PopAll(@, tpcKeys),
                      !.requested_commits = PopAll(@, tpcKeys),
                      !.pre_prepares_stashed_for_incorrect_time = PopAll(@, tpcKeys),
                      !.requests = @ \ reqKeys,
                      !.propagates = PopAll(@, reqKeys),
                      !.forwarded = @ \ reqKeys])

markCheckPointStable(r, seqNo) ==
    LET hit == {k \in DOMAIN r.checkpoints : k[2] = seqNo}
    IN  IF hit = {} THEN r
        ELSE LET key == CHOOSE k \in hit : \A o \in hit : k[1] <= o[1]
                 previous == {k \in DOMAIN r.checkpoints : k[2] < seqNo}
                 r1 == [r EXCEPT !.checkpoints[key].isStable = TRUE]
                 r2 == [SetH(r1, seqNo) EXCEPT !.checkpoints = PopAll(@, previous)]
                 r3 == remove_stashed_checkpoints(r2, <<r.viewNo, seqNo>>)
             IN  processStashedMsgsForNewWaterMarks(gc(r3, <<r.viewNo, seqNo>>))

RECURSIVE StashedMsgsLoop(_, _)
StashedMsgsLoop(r, itemsToConsume) ==
    IF itemsToConsume = 0 \/ r.consumedAllStashedMsgs \/ r.raised # NoName
          \/ r.stashingWhileOutsideWaterMarks = << >>
    THEN r
    ELSE LET item == Head(r.stashingWhileOutsideWaterMarks)
             r1 == [r EXCEPT !.stashingWhileOutsideWaterMarks = Tail(@)]
         IN  StashedMsgsLoop(dispatchThreePhaseMsg(r1, item[1], item[2]), itemsToConsume - 1)

processStashedMsgsForNewWaterMarks(r) ==
    [StashedMsgsLoop([r EXCEPT !.consumedAllStashedMsgs = FALSE],
                     Len(r.stashingWhileOutsideWaterMarks))
       EXCEPT !.consumedAllStashedMsgs = TRUE]

(* ------------------------ stashes served by serviceQueues -------------- *)

\* requests finalised meanwhile leave the pending sets; the PRE-PREPAREs left
\* with nothing pending move to prePreparesPendingPrevPP, last index first
RECURSIVE MoveReady(_, _)
MoveReady(r, i) ==
    IF i = 0 THEN r
    ELSE LET item == r.prePreparesPendingFinReqs[i]
         IN  IF item[3] = {}
             THEN MoveReady(
                      [r EXCEPT !.prePreparesPendingFinReqs =
                                    SubSeq(@, 1, i - 1) \o SubSeq(@, i + 1, Len(@)),
                                !.prePreparesPendingPrevPP = Put(@, MsgKey(item[1]), <<item[1], item[2]>>)],
                      i - 1)
             ELSE MoveReady(r, i - 1)

RECURSIVE DequeueNext(_)
DequeueNext(r) ==
    IF DOMAIN r.prePreparesPendingPrevPP = {} \/ r.raised # NoName THEN r
    ELSE LET key == SortedKeys(DOMAIN r.prePreparesPendingPrevPP)[1]
             nxt == is_next_pre_prepare(r, key[1], key[2])
         IN  IF nxt = "LogicError" THEN Raise(r, nxt)
             ELSE IF nxt = "False" THEN r
             ELSE LET item == r.prePreparesPendingPrevPP[key]
                      r1 == [r EXCEPT !.prePreparesPendingPrevPP = Pop(@, key)]
                      c == can_pp_seq_no_be_in_view(r1, key[1], key[2])
                  IN  IF c = "PlenumValueError" THEN Raise(r1, c)
                      ELSE IF c = "False" THEN DequeueNext(r1)
                      ELSE DequeueNext(handleSync(r1, item[1], item[2]))

dequeue_pre_prepares(r) ==
    LET upd == [i \in DOMAIN r.prePreparesPendingFinReqs |->
                   LET it == r.prePreparesPendingFinReqs[i]
                   IN  <<it[1], it[2], it[3] \ r.requests>>]
        r1 == [r EXCEPT !.prePreparesPendingFinReqs = upd]
    IN  DequeueNext(MoveReady(r1, Len(upd)))

isLowestCommitInView(r, key) == key[1] <= r.viewNo /\ key[2] = 1

\* the stashed keys in the order the two-level dict is walked: views by
\* first insertion, and within a view by insertion
OutOfOrderWalk(st) ==
    LET firstOfView(i) == \A j \in DOMAIN st : (st[j][1] = st[i][1]) => i <= j
        RECURSIVE views(_)
        views(i) == IF i > Len(st) THEN << >>
                    ELSE IF firstOfView(i) THEN <<st[i][1]>> \o views(i + 1) ELSE views(i + 1)
        RECURSIVE walk(_)
        walk(vs) == IF vs = << >> THEN << >>
                    ELSE LET v == Head(vs)
                             InView(k) == k[1] = v
                         IN  SelectSeq(st, InView) \o walk(Tail(vs))
    IN  walk(views(1))

RECURSIVE OutOfOrderLoop(_, _, _, _)
OutOfOrderLoop(r, keys, lastOrdered, removed) ==
    IF keys = << >> \/ r.raised # NoName
    THEN LET Keep(k) == k \notin removed
         IN  [r EXCEPT !.stashed_out_of_order_commits = SelectSeq(@, Keep)]
    ELSE LET k == Head(keys)
             commit == [type |-> COMMIT, viewNo |-> k[1], ppSeqNo |-> k[2]]
         IN  IF k[1] < lastOrdered[1]
             THEN OutOfOrderLoop(r, Tail(keys), lastOrdered, removed \cup {k})
             ELSE IF k \in SeqToSet(r.ordered) \/ has_already_ordered(r, k[1], k[2])
             THEN OutOfOrderLoop(r, Tail(keys), lastOrdered, removed \cup {k})
             ELSE IF \/ (k[1] = lastOrdered[1] /\ lastOrdered = <<k[1], k[2] - 1>>)
                     \/ (k[1] > lastOrdered[1] /\ isLowestCommitInView(r, k))
             THEN LET ok == canOrderResult(r, commit) = "True"
                  IN  OutOfOrderLoop(tryOrder(r, commit), Tail(keys),
                                     IF ok THEN k ELSE lastOrdered,
                                     IF ok THEN removed \cup {k} ELSE removed)
             ELSE OutOfOrderLoop(r, Tail(keys), lastOrdered, removed)

process_stashed_out_of_order_commits(r) ==
    OutOfOrderLoop(r, OutOfOrderWalk(r.stashed_out_of_order_commits), r.last_ordered_3pc, {})

(* ------------------------ the primary's batches ------------------------ *)

Max3PCBatchSize == 1

\* consume_req_queue_for_pre_prepare: <<requests taken, rest of the queue>>
RECURSIVE ConsumeQueue(_, _, _)
ConsumeQueue(r, queue, taken) ==
    IF Len(taken) >= Max3PCBatchSize \/ queue = << >> THEN <<taken, queue>>
    ELSE IF Head(queue) \in r.requests
         THEN ConsumeQueue(r, Tail(queue), Append(taken, Head(queue)))
         ELSE ConsumeQueue(r, Tail(queue), taken)

\* the time of a batch read from the clock alone
ClockReading(r) == r.utc_epoch

get_utc_epoch_for_preprepare(r) ==
    IF r.last_accepted_pre_prepare_time # NoTime /\ r.utc_epoch < r.last_accepted_pre_prepare_time
    THEN r.last_accepted_pre_prepare_time ELSE r.utc_epoch

MakePrePrepare(viewNo, ppSeqNo, ppTime, reqIdr, discarded, digest, stateRootHash, txnRootHash) ==
    [type |-> PREPREPARE, viewNo |-> viewNo, ppSeqNo |-> ppSeqNo, ppTime |-> ppTime,
     reqIdr |-> reqIdr, discarded |-> discarded, digest |-> digest,
     stateRootHash |-> stateRootHash, txnRootHash |-> txnRootHash]

\* send3PCBatch for the one ledger, once the batch size or the batch wait allows it:
\* create3PCBatch, sendPrePrepare, trackBatches
send3PCBatch(r) ==
    IF r.requestQueue = << >> THEN r
    ELSE LET oldStateRootHash == IF r.isMaster THEN StateRoot(r.applied) ELSE NoneRoot
             pp_seq_no == r.lastPrePrepareSeqNo + 1
             tm == get_utc_epoch_for_preprepare(r)
             c == ConsumeQueue(r, r.requestQueue, << >>)
             reqs == c[1]
             after == IF r.isMaster THEN r.applied \o reqs ELSE r.applied
             pp == MakePrePrepare(r.viewNo, pp_seq_no, tm, reqs, Len(reqs), batchDigest(reqs),
                                  IF r.isMaster THEN StateRoot(after) ELSE NoneRoot,
                                  IF r.isMaster THEN TxnRoot(after) ELSE NoneRoot)
             r1 == [r EXCEPT !.requestQueue = c[2]]
         IN  IF reqs = << >> THEN r1
             ELSE LET r2 == [SetLastPrePrepareSeqNo(r1, pp_seq_no) EXCEPT
                                !.applied = after,
                                !.last_accepted_pre_prepare_time = tm,
                                !.sentPrePrepares = Put(@, MsgKey(pp), pp)]
                  IN  trackBatches(send(r2, pp), pp, oldStateRootHash)

(* ------------------------ view change ---------------------------------- *)

\* the primary of an instance in a view: ranks taken round robin from the view number
PrimaryOf(viewNo, instId) == CHOOSE n \in Nodes : NodeRank[n] = (viewNo + instId) % N

InstIdOf(r) == IF r.isMaster THEN 0 ELSE 1

compact_primary_names(r) ==
    [r EXCEPT !.primaryNames = PopAll(@, {v \in DOMAIN @ : v < r.viewNo - 1})]

stateChanged(r) == IF isPrimary(r) # "None" THEN processPostElectionMsgs(r) ELSE r

clear_prev_view_pre_prepares(r) ==
    LET Cur(item) == ~(item[1].viewNo < r.viewNo)
    IN  [r EXCEPT !.prePreparesPendingFinReqs = SelectSeq(@, Cur),
                  !.prePreparesPendingPrevPP = PopAll(@, {k \in DOMAIN @ : k[1] < r.viewNo})]

gc_before_new_view(r) ==
    clear_prev_view_pre_prepares(
        remove_stashed_checkpoints([gc(r, r.last_ordered_3pc) EXCEPT !.checkpoints = EmptyDict],
                                   <<r.viewNo, 0>>))

reset_watermarks_before_new_view(r) == [SetH(r, 0) EXCEPT !.lastPrePrepareSeqNo = 0]

\* primaryName setter
\* the setter of primaryName with None: it returns after the assignment
ClearPrimaryName(r) ==
    [compact_primary_names([r EXCEPT !.primaryNames = Put(@, r.viewNo, NoName)])
        EXCEPT !.primaryName = NoName]

SetPrimaryName(r, value) ==
    LET r1 == compact_primary_names([r EXCEPT !.primaryNames = Put(@, r.viewNo, value)])
    IN  IF value = r.primaryName THEN r1
        ELSE LET r2 == [r1 EXCEPT !.primaryName = value]
             IN  IF value = NoName THEN r2
                 ELSE LET r3 == gc_before_new_view(r2)
                      IN  stateChanged(IF r.viewNo > 0 THEN reset_watermarks_before_new_view(r3) ELSE r3)

setup_for_non_master_after_view_change(r, current_view) ==
    IF r.isMaster THEN r
    ELSE LET Keep(k) == ~(k[1] < current_view)
         IN  [r EXCEPT !.stashed_out_of_order_commits = SelectSeq(@, Keep)]

primaryChanged(r, primaryName) ==
    LET r1 == [r EXCEPT !.batches = EmptyDict,
                        !.applied = IF r.isMaster THEN SubSeq(@, 1, r.committedSize) ELSE @]
    IN  setup_for_non_master_after_view_change(SetPrimaryName(r1, primaryName), r.viewNo)

last_prepared_certificate_in_view(r) ==
    LET keys == {k \in DOMAIN r.prepares : hasQuorum(r.prepares, k, Quorums.prepare)}
    IN  IF keys = {} THEN None3PC ELSE max_3PC_key(keys)

\* last_ordered_3pc forgotten at every start of a view change
ForgetLastOrdered(r) ==
    LET r1 == IF r.isMaster
              THEN [r EXCEPT !.last_prepared_before_view_change = last_prepared_certificate_in_view(r)]
              ELSE r
    IN  [r1 EXCEPT !.last_ordered_3pc = <<0, 0>>]

on_view_change_start(r) ==
    LET r1 == IF r.isMaster
              THEN [r EXCEPT !.last_prepared_before_view_change = last_prepared_certificate_in_view(r)]
              ELSE r
    IN  IF r1.viewNo <= r1.last_ordered_3pc[1]
        THEN [r1 EXCEPT !.last_ordered_3pc = <<r1.viewNo, 0>>]
        ELSE r1

KeepLastPrepared(r) == r

on_view_change_done(r) ==
    IF r.isMaster THEN [r EXCEPT !.last_prepared_before_view_change = None3PC] ELSE r

\* last_ordered_3pc is left as it is and the committed requests stay
ClearNothing(r, master_last_ordered_3pc) == r

\* requests already committed to the ledger leave the request store and the
\* queue; last_ordered_3pc is raised to the master's when that one is later
clear_requests_and_fix_last_ordered(r, master_last_ordered_3pc) ==
    LET done == {key \in r.requests : key \in DOMAIN r.seqNoDB}
        keep == IsNotIn(done)
        Keep(k) == keep[k]
        r1 == [r EXCEPT !.requests = @ \ done, !.propagates = PopAll(@, done),
                        !.forwarded = @ \ done, !.requestQueue = SelectSeq(@, Keep)]
    IN  IF compare_3PC_keys(master_last_ordered_3pc, r1.last_ordered_3pc) < 0
        THEN [r1 EXCEPT !.last_ordered_3pc = master_last_ordered_3pc]
        ELSE r1

on_propagate_primary_done(r) ==
    IF r.isMaster
    THEN LET r1 == update_watermark_from_3pc(r)
         IN  IF isPrimary(r1) = "True" /\ r1.last_ordered_3pc[1] = r1.viewNo
             THEN SetLastPrePrepareSeqNo(r1, r1.last_ordered_3pc[2])
             ELSE r1
    ELSE IF isPrimary(r) # "True" THEN [r EXCEPT !.h = 0, !.H = SysMaxSize]
    ELSE r

(* ------------------------ catch-up ------------------------------------- *)

remove_till_caught_up_3pc(r, till) ==
    LET out == {k \in (DOMAIN r.prePrepares) \cup (DOMAIN r.sentPrePrepares) :
                   compare_3PC_keys(k, till) >= 0}
        reqs == UNION {SeqToSet(getPrePrepare(r, k).reqIdr) : k \in out}
        keep == IsNotIn(reqs)
        Keep(k) == keep[k]
    IN  [r EXCEPT !.batches = PopAll(@, out),
                  !.sentPrePrepares = PopAll(@, out),
                  !.prePrepares = PopAll(@, out),
                  !.prepares = PopAll(@, out),
                  !.commits = PopAll(@, out),
                  !.requestQueue = SelectSeq(@, Keep)]

remove_ordered_from_queue(r, till) ==
    LET Keep(m) == ~(m.type = ORDERED /\ compare_3PC_keys(MsgKey(m), till) >= 0)
    IN  [r EXCEPT !.outBox = SelectSeq(@, Keep)]

caught_up_till_3pc(r, last_caught_up_3PC) ==
    LET r1 == [r EXCEPT !.last_ordered_3pc = last_caught_up_3PC]
        r2 == remove_ordered_from_queue(remove_till_caught_up_3pc(r1, last_caught_up_3PC),
                                        last_caught_up_3PC)
        r3 == remove_stashed_checkpoints([r2 EXCEPT !.checkpoints = EmptyDict], last_caught_up_3PC)
    IN  update_watermark_from_3pc(r3)

catchup_clear_for_backup(r) ==
    IF isPrimary(r) # "True"
    THEN [r EXCEPT !.last_ordered_3pc = <<r.viewNo, 0>>,
                   !.batches = EmptyDict,
                   !.sentPrePrepares = EmptyDict,
                   !.prePrepares = EmptyDict,
                   !.prepares = EmptyDict,
                   !.commits = EmptyDict,
                   !.outBox = << >>,
                   !.checkpoints = EmptyDict,
                   !.stashedRecvdCheckpoints = EmptyDict,
                   !.h = 0, !.H = SysMaxSize]
    ELSE r

(* ------------------------ node ----------------------------------------- *)

\* ViewChanger.startViewChange with Node.on_view_change_start
startViewChange(r, proposed_view_no, propagate_primary) ==
    LET r1 == [r EXCEPT !.next_view_indications =
                            PopAll(@, {v \in DOMAIN @ : v <= proposed_view_no}),
                        !.viewNo = proposed_view_no,
                        !.view_change_in_progress = TRUE,
                        !.propagate_primary = propagate_primary,
                        !.previous_master_primary = r.primaryName,
                        !.insChngThrottled = FALSE,
                        !.scheduled = @ \cup {"check_view_change_completed"}]
    IN  start_catchup(ClearPrimaryName(on_view_change_start(set_defaults(r1))))

RECURSIVE processStashedOrderedReqs(_, _)
processStashedOrderedReqs(r, last_caught_up_3PC) ==
    IF r.stashedOrderedReqs = << >> THEN r
    ELSE LET msg == Head(r.stashedOrderedReqs)
             r1 == [r EXCEPT !.stashedOrderedReqs = Tail(@)]
         IN  IF r.isMaster /\ compare_3PC_keys(MsgKey(msg), last_caught_up_3PC) >= 0
             THEN processStashedOrderedReqs(r1, last_caught_up_3PC)
             ELSE processStashedOrderedReqs(
                      processOrdered(IF r.isMaster THEN [r1 EXCEPT !.applied = @ \o msg.reqIdr] ELSE r1,
                                     msg),
                      last_caught_up_3PC)

no_more_catchups_needed(r) ==
    LET Participate(r1) ==
            IF r1.mode # "participating" /\ hasPrimary(r1) THEN [r1 EXCEPT !.mode = "participating"] ELSE r1
    IN  Participate(on_catchup_complete([r EXCEPT !.mode = "synced"]))

\* Node.postTxnFromCatchupAddedToLedger for each transaction that the catch-up
\* appends to the committed ledger
postTxnsFromCatchupAddedToLedger(r, txns) ==
    IF ~r.isMaster THEN r
    ELSE LET keep == IsNotIn(SeqToSet(txns))
             Keep(k) == keep[k]
         IN  updateSeqNoMap([r EXCEPT !.applied = SubSeq(@, 1, r.committedSize) \o txns,
                                      !.committedSize = @ + Len(txns),
                                      !.requestQueue = SelectSeq(@, Keep)],
                            r.committedSize + 1, r.committedSize + Len(txns))

\* Node.allLedgersCaughtUp: txns are the transactions the catch-up added to the
\* ledger, ahead tells whether the caught-up key is later than the master's
\* last ordered key, outcome is what is_catchup_needed finds
allLedgersCaughtUp(r, last_caught_up_3PC, txns, ahead, outcome) ==
    LET Decide(r2) ==
            IF outcome = "needed" THEN start_catchup(r2)
            ELSE no_more_catchups_needed(
                     IF outcome = "limit" /\ r2.isMaster
                     THEN [r2 EXCEPT !.last_prepared_before_view_change = None3PC]
                     ELSE r2)
        CaughtUp(r0) ==
            Decide(processStashedOrderedReqs(
                       IF ahead
                       THEN IF r0.isMaster THEN caught_up_till_3pc(r0, last_caught_up_3PC)
                            ELSE catchup_clear_for_backup(r0)
                       ELSE r0,
                       last_caught_up_3PC))
    IN  CaughtUp(postTxnsFromCatchupAddedToLedger([r EXCEPT !.mode = "syncing"], txns))

(* ------------------------ node: performance check --------------------- *)

\* the check goes on while the node is catching up
CheckWhileNotParticipating(r, new_ordered, degraded) ==
    IF ~new_ordered THEN r
    ELSE IF degraded THEN on_master_degradation(r)
    ELSE r

\* Node.checkPerformance: new_ordered is what _update_new_ordered_reqs_count
\* answers, degraded is what Monitor.isMasterDegraded answers
checkPerformance(r, new_ordered, degraded) ==
    IF ~isParticipating(r) THEN r
    ELSE IF ~new_ordered THEN r
    ELSE IF degraded THEN on_master_degradation(r)
    ELSE r

(* ------------------------ node: connections ---------------------------- *)

\* minimum for a functional pool
minimumNodes == 2 * f + 1

isReady(r) == r.status \in {"started_hungry", "started"}

connectedNodeCount(r) == Cardinality(r.conns) + 1

\* the primary of the master instance, as the node's master replica knows it
master_primary_name(r) ==
    IF ~hasPrimary(r) THEN NoName
    ELSE IF r.isMaster THEN r.primaryName ELSE PrimaryOf(r.viewNo, 0)

\* lost_primary_at holds a time or None: TRUE stands for a time
primary_selected(r) ==
    IF ~r.lost_primary_at THEN r
    ELSE IF master_primary_name(r) \in r.conns \/ master_primary_name(r) = r.name
         THEN [r EXCEPT !.lost_primary_at = FALSE]
         ELSE r

schedule_view_change(r) == [r EXCEPT !.scheduled = @ \cup {"propose_view_change"}]

lost_master_primary(r) == schedule_view_change([r EXCEPT !.lost_primary_at = TRUE])

\* a view change is proposed although the node is not ready
ProposeWhenNotReady(r) ==
    LET r1 == [r EXCEPT !.scheduled = @ \ {"propose_view_change"}]
    IN  IF ~r1.lost_primary_at THEN r1
        ELSE on_primary_loss(r1)

propose_view_change(r) ==
    LET r1 == [r EXCEPT !.scheduled = @ \ {"propose_view_change"}]
    IN  IF ~r1.lost_primary_at THEN r1
        ELSE IF ~isReady(r1) THEN r1
        ELSE on_primary_loss(r1)

\* the node stack has added joined to its connections and removed left
onConnsChanged(r, joined, left) ==
    LET Status(r0) ==
            [r0 EXCEPT !.status = IF connectedNodeCount(r0) = N THEN "started"
                                  ELSE IF connectedNodeCount(r0) >= minimumNodes THEN "started_hungry"
                                  ELSE "starting"]
        Found(r1) == IF master_primary_name(r1) \in joined THEN [r1 EXCEPT !.lost_primary_at = FALSE] ELSE r1
        Lost(r2) ==
            IF master_primary_name(r2) \in left THEN lost_master_primary(r2)
            ELSE IF /\ r.status = "starting"
                    /\ r2.status = "started_hungry"
                    /\ r2.lost_primary_at
                    /\ master_primary_name(r2) # NoName
                 THEN schedule_view_change(r2)
                 ELSE r2
    IN  Lost(Found(Status([r EXCEPT !.conns = (@ \cup joined) \ left])))

\* the view change completes though an instance has no primary
CompleteWithoutPrimary(r, master_last_ordered_3pc) ==
    LET r1 == on_view_change_done(r)
    IN  IF r.propagate_primary THEN on_propagate_primary_done(r1)
        ELSE clear_requests_and_fix_last_ordered(r1, master_last_ordered_3pc)

on_view_change_complete(r, master_last_ordered_3pc) ==
    IF ~hasPrimary(r) THEN Raise(r, "LogicError")
    ELSE LET r1 == on_view_change_done(r)
         IN  IF r.propagate_primary THEN on_propagate_primary_done(r1)
             ELSE clear_requests_and_fix_last_ordered(r1, master_last_ordered_3pc)

\* the end of ViewChanger._start_selection: Node.select_primaries, then
\* Node.on_view_change_complete if a view change is in progress
select_primaries(r, master_last_ordered_3pc) ==
    LET Selected(r1) ==
            IF ~r.view_change_in_progress THEN r1
            ELSE [on_view_change_complete([r1 EXCEPT !.view_change_in_progress = FALSE],
                                          master_last_ordered_3pc)
                     EXCEPT !.propagate_primary = FALSE,
                            !.scheduled = @ \ {"check_view_change_completed"},
                            !.instanceChanges = PopAll(@, {v \in DOMAIN @ : v <= r.viewNo}),
                            !.previous_master_primary = NoName]
    IN  Selected(IF hasPrimary(r) THEN r
                 ELSE primary_selected(
                          primaryChanged([r EXCEPT !.mode = "participating"],
                                         PrimaryOf(r.viewNo, InstIdOf(r)))))

(* ------------------------ replica: serviceQueues ------------------------ *)

\* batches sent whatever the mode of the node
ServiceWhileNotParticipating(r) ==
    LET r1 == IF isParticipating(r) THEN dequeue_pre_prepares(r) ELSE r
    IN  IF isPrimary(r1) = "True" THEN send3PCBatch(r1) ELSE r1

\* Replica.serviceQueues without the inBox, whose messages are handled one by one
serviceQueues(r) ==
    LET r1 == IF isParticipating(r) THEN dequeue_pre_prepares(r) ELSE r
    IN  IF isPrimary(r1) = "True" /\ isParticipating(r1) THEN send3PCBatch(r1) ELSE r1

(* ------------------------ view changer: VIEW_CHANGE_DONE --------------- *)

VIEW_CHANGE_DONE == "VIEW_CHANGE_DONE"

\* Node.ledger_summary, told by the size of the ledger
ledger_summary(r) == r.committedSize

is_synced(r) == r.mode \in {"synced", "participating"}

\* ViewChanger.quorum
quorum(r) ==
    IF ~r.view_change_in_progress THEN Quorums.propagate_primary
    ELSE IF r.propagate_primary THEN Quorums.propagate_primary
    ELSE Quorums.view_change_done

hasViewChangeQuorum(r) == Cardinality(DOMAIN r.view_change_done) >= quorum(r)

\* the most frequent <<new primary, ledger summary>> among the messages held
\* and the number of senders that back it
MostCommonViewChangeDone(r) ==
    LET votes == {r.view_change_done[x] : x \in DOMAIN r.view_change_done}
        Count(v) == Cardinality({x \in DOMAIN r.view_change_done : r.view_change_done[x] = v})
        best == CHOOSE v \in votes : \A w \in votes : Count(w) <= Count(v)
    IN  <<best, Count(best)>>

\* the replica after the call; the answer is accepted_view_change_done_message
get_sufficient_same_view_change_done_messages(r) ==
    IF r.accepted_view_change_done_message = << >> /\ DOMAIN r.view_change_done # {}
    THEN LET mc == MostCommonViewChangeDone(r)
         IN  IF mc[2] >= quorum(r) THEN [r EXCEPT !.accepted_view_change_done_message = mc[1]] ELSE r
    ELSE r

\* the replica after the property was read; the answer is propagated_view_change_completed
is_propagated_view_change_completed(r) ==
    IF ~r.propagated_view_change_completed /\ r.propagate_primary
    THEN LET Completed(r1) == IF r1.accepted_view_change_done_message # << >>
                              THEN [r1 EXCEPT !.propagated_view_change_completed = TRUE]
                              ELSE r1
         IN  Completed(get_sufficient_same_view_change_done_messages(r))
    ELSE r

\* the replica after the property was read; the answer is has_view_change_from_primary
has_view_change_from_primary(r) ==
    IF ~r.has_view_change_from_primary /\ PrimaryOf(r.viewNo, 0) \in DOMAIN r.view_change_done
    THEN [r EXCEPT !.has_view_change_from_primary = TRUE]
    ELSE r

\* the replica after the property was read; the answer is has_acceptable_view_change_quorum
has_acceptable_view_change_quorum(r) ==
    IF r.has_acceptable_view_change_quorum THEN r
    ELSE IF ~hasViewChangeQuorum(r) THEN r
    ELSE LET Answer(r2) ==
                 [r2 EXCEPT !.has_acceptable_view_change_quorum =
                                r2.propagated_view_change_completed \/ r2.has_view_change_from_primary]
             FromPrimary(r1) ==
                 Answer(IF r1.propagated_view_change_completed THEN r1 ELSE has_view_change_from_primary(r1))
         IN  FromPrimary(is_propagated_view_change_completed(r))

\* never behind the accepted state
NeverBehind(r) == FALSE

is_behind_for_view(r) == ledger_summary(r) < r.accepted_view_change_done_message[2]

\* any primary the majority names passes
AnyPrimaryVerified(r) == TRUE

verify_primary(r) == r.accepted_view_change_done_message[1] = PrimaryOf(r.viewNo, 0)

start_selection(r) ==
    LET Select(r4) ==
            IF ~(r4.propagated_view_change_completed \/ r4.primary_verified) THEN r4
            ELSE IF is_behind_for_view(r4) THEN start_catchup(r4)
            ELSE select_primaries(r4, r4.last_ordered_3pc)
        Verify(r3) ==
            Select(IF ~r3.propagated_view_change_completed /\ verify_primary(r3)
                   THEN [r3 EXCEPT !.primary_verified = TRUE] ELSE r3)
        Accepted(r2) ==
            IF r2.accepted_view_change_done_message = << >> THEN r2
            ELSE Verify(is_propagated_view_change_completed(r2))
        Acceptable(r1) ==
            IF ~r1.has_acceptable_view_change_quorum THEN r1
            ELSE Accepted(get_sufficient_same_view_change_done_messages(r1))
    IN  IF ~is_synced(r) THEN r
        ELSE Acceptable(has_acceptable_view_change_quorum(r))

on_verified_view_change_done_msg(r, name, ledgerInfo, frm) ==
    [r EXCEPT !.view_change_done = Put(@, frm, <<name, ledgerInfo>>)]

send_view_change_done_message(r) ==
    on_verified_view_change_done_msg(
        send(r, [type |-> VIEW_CHANGE_DONE, viewNo |-> r.viewNo,
                 name |-> PrimaryOf(r.viewNo, 0), ledgerInfo |-> ledger_summary(r)]),
        PrimaryOf(r.viewNo, 0), ledger_summary(r), r.name)

on_catchup_complete(r) ==
    LET Announce(r1) == IF r1.propagated_view_change_completed THEN r1
                        ELSE send_view_change_done_message(r1)
    IN  start_selection(IF is_synced(r) /\ isPrimary(r) = "None"
                        THEN Announce(is_propagated_view_change_completed(r))
                        ELSE r)

process_vchd_msg(r, msg, sender) ==
    IF r.viewNo # msg.viewNo THEN r
    ELSE IF msg.name = r.previous_master_primary THEN r
    ELSE LET Select(r1) == IF hasPrimary(r1) THEN r1 ELSE start_selection(r1)
         IN  Select(on_verified_view_change_done_msg(r, msg.name, msg.ledgerInfo, sender))

\* Propagator: a request gets its quorum of PROPAGATEs and is forwarded to the replica
readyFor3PC(r, req) ==
    [r EXCEPT !.requests = @ \cup {req},
              !.requestQueue = IF req \in SeqToSet(@) THEN @ ELSE Append(@, req)]

(* ------------------------ node: client requests ---------------------- *)

Votes(r, req) == IF req \in DOMAIN r.propagates THEN r.propagates[req] ELSE {}

\* Requests.add_propagate
add_propagate(r, req, sender) == [r EXCEPT !.propagates = Put(@, req, Votes(r, req) \cup {sender})]

\* Propagator.propagate: a node sends its PROPAGATE of a request once
propagate(r, req) ==
    IF r.name \in Votes(r, req) THEN r
    ELSE [add_propagate(r, req, r.name) EXCEPT !.propagated = Append(@, req)]

\* Propagator.tryForwarding: a request with f + 1 PROPAGATEs is forwarded to
\* the replicas once
tryForwarding(r, req) ==
    IF req \in r.forwarded THEN r
    ELSE IF Cardinality(Votes(r, req)) < Quorums.propagate THEN r
    ELSE readyFor3PC([r EXCEPT !.forwarded = @ \cup {req}], req)

recordAndPropagate(r, req) == tryForwarding(propagate(r, req), req)

getReplyFromLedgerForRequest(r, req) ==
    IF req \in DOMAIN r.seqNoDB THEN getReplyFromLedger(r, r.seqNoDB[req]) ELSE NoReply

\* Node.processRequest for a request that writes
processRequest(r, req, frm) ==
    LET reply == getReplyFromLedgerForRequest(r, req)
    IN  IF reply # NoReply THEN [r EXCEPT !.toClient = @ \cup {<<reply, frm>>}]
        ELSE LET r1 == IF isProcessingReq(r, req) THEN r
                       ELSE [r EXCEPT !.requestSender = Put(@, req, frm)]
             IN  [recordAndPropagate(r1, req) EXCEPT
                      !.toClient = @ \cup {<<[type |-> REQACK, req |-> req], frm>>}]

\* Node.processPropagate: clientName is the sender the PROPAGATE names
processPropagate(r, req, clientName, frm) ==
    LET Record(r1) == tryForwarding(propagate(add_propagate(r1, req, frm), req), req)
    IN  IF ~isProcessingReq(r, req)
        THEN IF req \in DOMAIN r.seqNoDB THEN r
             ELSE Record([r EXCEPT !.requestSender = Put(@, req, clientName)])
        ELSE Record(IF clientName # NoName /\ r.requestSender[req] = NoName
                    THEN [r EXCEPT !.requestSender = Put(@, req, clientName)]
                    ELSE r)

\* Node.service_replicas_outbox: Ordered goes to the node, the rest to the network
service_replicas_outbox(r) == [force_process_ordered(r) EXCEPT !.outBox = << >>]

IsWire(m) == m.type \in {PREPREPARE, PREPARE, COMMIT, CHECKPOINT}

Outgoing(r) == SeqToSet(SelectSeq(r.outBox, IsWire))

\* the replica after a handler: an uncaught exception stops the node where it was
Served(old, new) ==
    IF new.raised # NoName THEN [old EXCEPT !.raised = new.raised]
    ELSE service_replicas_outbox(new)

Sends(new) == IF new.raised # NoName THEN {} ELSE Outgoing(new)

IsPrePrepare(m) == m.type = PREPREPARE

\* the PRE-PREPAREs a handler has put in the outBox, in the order of sending
PrePreparesSent(n, new) ==
    IF new.raised # NoName THEN << >>
    ELSE LET pps == SelectSeq(new.outBox, IsPrePrepare)
         IN  [i \in DOMAIN pps |-> <<n, pps[i]>>]

msgHasAcceptableViewNo(r, view_no) == view_no <= r.viewNo /\ r.viewNo - view_no <= 1

(* ------------------------ state ---------------------------------------- *)

VARIABLES replicas, net, sent

vars == <<replicas, net, sent>>

MaxStash == 1

MaxPrepareStash == 2

\* the INSTANCE_CHANGEs a node sends in a run
MaxInstanceChanges == 2

\* queues of the replica stay within MaxStash entries
Bounded(r) ==
    /\ Len(r.stashingWhileOutsideWaterMarks) <= MaxStash
    /\ Len(r.postElectionMsgs) <= MaxStash
    /\ Len(r.prePreparesPendingFinReqs) <= MaxStash
    /\ Len(r.stashedOrderedReqs) <= MaxStash
    /\ \A k \in DOMAIN r.preparesWaitingForPrePrepare : Len(r.preparesWaitingForPrePrepare[k]) <= MaxPrepareStash
    /\ \A k \in DOMAIN r.commitsWaitingForPrepare : Len(r.commitsWaitingForPrepare[k]) <= MaxStash
    /\ Len(r.applied) <= MaxSeqNo + 1
    /\ Len(r.instanceChangesSent) <= MaxInstanceChanges

\* a PRE-PREPARE for one request whose roots follow from the receiver's ledger
PrePrepareFor(r, viewNo, ppSeqNo, ppTime, req) ==
    LET after == r.applied \o <<req>>
    IN  MakePrePrepare(viewNo, ppSeqNo, ppTime, <<req>>, 1, batchDigest(<<req>>),
                       IF r.isMaster THEN StateRoot(after) ELSE NoneRoot,
                       IF r.isMaster THEN TxnRoot(after) ELSE NoneRoot)

MakeCommitFor(viewNo, ppSeqNo) == [type |-> COMMIT, viewNo |-> viewNo, ppSeqNo |-> ppSeqNo]

\* the request the primary batches under a ppSeqNo
ReqOf(ppSeqNo) == IF ppSeqNo % 2 = 0 THEN "r2" ELSE "r1"

\* the CHECKPOINT a peer sends once it has ordered the window ending at e
CheckpointFor(viewNo, e) ==
    MakeCheckpoint(viewNo, e - CHK_FREQ + 1, e,
                   CheckpointDigest([i \in 1..CHK_FREQ |-> batchDigest(<<ReqOf(e - CHK_FREQ + i)>>)]))

Step(n, new) ==
    /\ replicas[n].raised = NoName
    /\ Bounded(new)
    /\ replicas' = [replicas EXCEPT ![n] = Served(replicas[n], new)]
    /\ sent' = sent \o PrePreparesSent(n, new)
    /\ UNCHANGED net

\* Node.sendToReplica and the replica's inBoxRouter: one 3PC message
Receive3PC(n, msgs, senders) ==
    \E sender \in senders : \E msg \in msgs :
        /\ msgHasAcceptableViewNo(replicas[n], msg.viewNo)
        /\ Step(n, processThreePhaseMsg(replicas[n], msg, sender))

ReceiveCheckpoint(n, msgs, senders) ==
    \E sender \in senders : \E msg \in msgs :
        Step(n, processCheckpoint(replicas[n], msg, sender))

\* serviceQueues: dequeue_pre_prepares, taken when the node participates
DequeuePrePrepares(n) ==
    /\ isParticipating(replicas[n])
    /\ Step(n, dequeue_pre_prepares(replicas[n]))

\* serviceQueues: send3PCBatch, taken by a participating primary
Send3PCBatch(n) ==
    /\ isPrimary(replicas[n]) = "True"
    /\ isParticipating(replicas[n])
    /\ replicas[n].lastPrePrepareSeqNo < MaxSeqNo
    /\ Step(n, send3PCBatch(replicas[n]))

\* the repeating action scheduled by canOrder
ProcessStashedOutOfOrderCommits(n) ==
    /\ replicas[n].stashed_out_of_order_commits # << >>
    /\ Step(n, process_stashed_out_of_order_commits(replicas[n]))

Finalise(n, reqs) ==
    \E req \in reqs :
        /\ req \notin replicas[n].requests
        /\ req \notin SeqToSet(replicas[n].applied)
        /\ Step(n, readyFor3PC(replicas[n], req))

StartViewChange(n) ==
    \E propagating \in BOOLEAN :
        /\ replicas[n].viewNo < MaxView
        /\ Step(n, startViewChange(replicas[n], replicas[n].viewNo + 1, propagating))

CaughtUpKeys(r) == {<<v, s>> : v \in 0..r.viewNo, s \in 0..CHK_FREQ}

AllLedgersCaughtUp(n, key) ==
    \E outcome \in {"needed", "limit", "done"} : \E ahead \in BOOLEAN :
        /\ replicas[n].mode = "starting"
        /\ outcome = "needed" => replicas[n].view_change_in_progress
        /\ replicas[n].isMaster => (ahead <=> compare_3PC_keys(replicas[n].last_ordered_3pc, key) > 0)
        /\ Step(n, allLedgersCaughtUp(replicas[n], key, IF ahead /\ replicas[n].isMaster THEN <<"r1">> ELSE << >>,
                                      ahead, outcome))

\* the master replica of the node has lagged (__start_catchup_if_needed) and the
\* node starts a catch-up, which a backup replica of the node undergoes
NodeStartsCatchup(n) ==
    /\ ~replicas[n].isMaster
    /\ replicas[n].mode = "participating"
    /\ Step(n, start_catchup(replicas[n]))

SelectPrimaries(n) ==
    \E mlo \in CaughtUpKeys(replicas[n]) :
        /\ replicas[n].view_change_in_progress
        /\ replicas[n].mode = "synced"
        /\ ~hasPrimary(replicas[n])
        /\ replicas[n].isMaster => mlo = replicas[n].last_ordered_3pc
        /\ Step(n, select_primaries(replicas[n], mlo))

(* ------------------- a replica between its watermarks ------------------ *)

WSeqNos == (1..CHK_FREQ) \cup {LOG_SIZE + 1}

WPrePrepares(r) == {PrePrepareFor(r, 0, s, 1, ReqOf(s)) : s \in WSeqNos}

WPrepares(r) == {MakePrepare(PrePrepareFor(r, 0, s, 1, ReqOf(s))) : s \in 1..CHK_FREQ}

WCommits == {MakeCommitFor(0, s) : s \in 1..CHK_FREQ}

WatermarkInit ==
    /\ \E isMaster \in BOOLEAN :
          replicas = [n \in {"N3"} |->
                         readyFor3PC(readyFor3PC(
                             primaryChanged(InitReplica(n, isMaster),
                                            PrimaryOf(0, IF isMaster THEN 0 ELSE 1)), "r1"), "r2")]
    /\ net = {}
    /\ sent = << >>

WReceivePrePrepare ==
    \E n \in DOMAIN replicas :
        Receive3PC(n, WPrePrepares(replicas[n]), {replicas[n].primaryName})

WReceivePrepare ==
    \E n \in DOMAIN replicas : Receive3PC(n, WPrepares(replicas[n]), {"N4"})

WReceiveCommit ==
    \E n \in DOMAIN replicas : Receive3PC(n, WCommits, {"N1", "N4"})

WReceiveCheckpoint ==
    \E n \in DOMAIN replicas : ReceiveCheckpoint(n, {CheckpointFor(0, CHK_FREQ)}, Nodes \ {n})

WDequeuePrePrepares == \E n \in DOMAIN replicas : DequeuePrePrepares(n)

WProcessStashedOutOfOrderCommits == \E n \in DOMAIN replicas : ProcessStashedOutOfOrderCommits(n)

WatermarkNext ==
    \/ WReceivePrePrepare
    \/ WReceivePrepare
    \/ WReceiveCommit
    \/ WReceiveCheckpoint
    \/ WDequeuePrePrepares
    \/ WProcessStashedOutOfOrderCommits

WatermarkSpec == WatermarkInit /\ [][WatermarkNext]_vars

(* ------------------- a replica through view change and catch-up -------- *)

VSeqNos == 1..CHK_FREQ

\* what the replica itself sent under a view bounds what the pool can have
\* ordered there when the replica is the primary of its instance
SentUpTo(n, v) ==
    LET own == {sent[i][2].ppSeqNo : i \in {j \in DOMAIN sent : sent[j][1] = n /\ sent[j][2].viewNo = v}}
    IN  IF own = {} THEN 0 ELSE SetMax(own)

VCaughtUpKeys(n) ==
    LET r == replicas[n]
    IN  {k \in CaughtUpKeys(r) :
            /\ PrimaryOf(k[1], InstIdOf(r)) = n => k[2] <= SentUpTo(n, k[1])
            /\ k[1] = r.viewNo /\ ~hasPrimary(r) => k[2] = 0}

ViewInit ==
    /\ \E isMaster \in BOOLEAN :
          replicas = [n \in {"N2"} |->
                         readyFor3PC(readyFor3PC(
                             primaryChanged(InitReplica(n, isMaster),
                                            PrimaryOf(0, IF isMaster THEN 0 ELSE 1)), "r1"), "r2")]
    /\ net = {}
    /\ sent = << >>

\* the primary's PRE-PREPAREs, and for the first key one with another request
VReceivePrePrepare ==
    \E n \in DOMAIN replicas :
        /\ hasPrimary(replicas[n])
        /\ Receive3PC(n, {PrePrepareFor(replicas[n], replicas[n].viewNo, s, 1, ReqOf(s)) : s \in VSeqNos}
                             \cup {PrePrepareFor(replicas[n], replicas[n].viewNo, 1, 1, ReqOf(2))},
                      {replicas[n].primaryName} \ {n})

VSend3PCBatch == \E n \in DOMAIN replicas : Send3PCBatch(n)

VDequeuePrePrepares == \E n \in DOMAIN replicas : DequeuePrePrepares(n)

VStartViewChange == \E n \in DOMAIN replicas : StartViewChange(n)

VNodeStartsCatchup == \E n \in DOMAIN replicas : NodeStartsCatchup(n)

VAllLedgersCaughtUp ==
    \E n \in DOMAIN replicas : \E key \in VCaughtUpKeys(n) : AllLedgersCaughtUp(n, key)

VSelectPrimaries == \E n \in DOMAIN replicas : SelectPrimaries(n)

ViewNext ==
    \/ VReceivePrePrepare
    \/ VSend3PCBatch
    \/ VDequeuePrePrepares
    \/ VStartViewChange
    \/ VNodeStartsCatchup
    \/ VAllLedgersCaughtUp
    \/ VSelectPrimaries

ViewSpec == ViewInit /\ [][ViewNext]_vars

(* ------------------- a replica that lags behind the pool --------------- *)

LSeqNos == {1, LOG_SIZE + 1}

\* the ends of the windows the pool has completed
LEnds == {CHK_FREQ, 2 * CHK_FREQ}

LagInit ==
    /\ \E isMaster \in BOOLEAN :
          replicas = [n \in {"N3"} |->
                         readyFor3PC(readyFor3PC(
                             primaryChanged(InitReplica(n, isMaster),
                                            PrimaryOf(0, IF isMaster THEN 0 ELSE 1)), "r1"), "r2")]
    /\ net = {}
    /\ sent = << >>

LReceivePrePrepare ==
    \E n \in DOMAIN replicas :
        Receive3PC(n, {PrePrepareFor(replicas[n], 0, s, 1, ReqOf(s)) : s \in LSeqNos},
                   {replicas[n].primaryName})

\* CHECKPOINTs of peers that are one and two windows ahead
LReceiveCheckpoint ==
    \E n \in DOMAIN replicas :
        ReceiveCheckpoint(n, {CheckpointFor(0, e) : e \in LEnds}, Nodes \ {n})

LDequeuePrePrepares == \E n \in DOMAIN replicas : DequeuePrePrepares(n)

LNodeStartsCatchup == \E n \in DOMAIN replicas : NodeStartsCatchup(n)

\* the ppSeqNos up to which a catch-up can bring the ledger
LCaughtUpTo == {0, LOG_SIZE} \cup LEnds

LAllLedgersCaughtUp ==
    \E n \in DOMAIN replicas : \E e \in LCaughtUpTo : AllLedgersCaughtUp(n, <<0, e>>)

LagNext ==
    \/ LReceivePrePrepare
    \/ LReceiveCheckpoint
    \/ LDequeuePrePrepares
    \/ LNodeStartsCatchup
    \/ LAllLedgersCaughtUp

LagSpec == LagInit /\ [][LagNext]_vars

(* ------------------- a replica that misses PRE-PREPAREs ---------------- *)

\* the PRE-PREPAREs that reach the replica: the one for ppSeqNo 2 is lost
GSeqNos == {1, CHK_FREQ + 1, CHK_FREQ + 2}

\* the batch the peers prepare and commit
GOrdered == {1}

GPrePrepares(r) == {PrePrepareFor(r, 0, s, 1, ReqOf(s)) : s \in GSeqNos}

GapInit ==
    /\ \E isMaster \in BOOLEAN :
          replicas = [n \in {"N3"} |->
                         readyFor3PC(readyFor3PC(
                             primaryChanged(InitReplica(n, isMaster),
                                            PrimaryOf(0, IF isMaster THEN 0 ELSE 1)), "r1"), "r2")]
    /\ net = {}
    /\ sent = << >>

GReceivePrePrepare ==
    \E n \in DOMAIN replicas :
        Receive3PC(n, GPrePrepares(replicas[n]), {replicas[n].primaryName})

GReceivePrepare ==
    \E n \in DOMAIN replicas :
        Receive3PC(n, {MakePrepare(PrePrepareFor(replicas[n], 0, s, 1, ReqOf(s))) : s \in GOrdered}, {"N4"})

GReceiveCommit ==
    \E n \in DOMAIN replicas :
        Receive3PC(n, {MakeCommitFor(0, s) : s \in GOrdered}, {"N1", "N4"})

GDequeuePrePrepares == \E n \in DOMAIN replicas : DequeuePrePrepares(n)

GapNext ==
    \/ GReceivePrePrepare
    \/ GReceivePrepare
    \/ GReceiveCommit
    \/ GDequeuePrePrepares

GapSpec == GapInit /\ [][GapNext]_vars

(* ------------------- a replica and its clock --------------------------- *)

MaxClock == 2

\* the readings of the node's clock and the times the peers put in their messages
Clock == 1..MaxClock

TSeqNos == {1}

\* N2 is the primary of instance 1 in view 0 and a backup of the master instance,
\* N3 is a backup in both
TimeInit ==
    /\ \E n \in {"N2", "N3"} : \E isMaster \in BOOLEAN :
          replicas = [x \in {n} |->
                         readyFor3PC(readyFor3PC(
                             primaryChanged(InitReplica(n, isMaster),
                                            PrimaryOf(0, IF isMaster THEN 0 ELSE 1)), "r1"), "r2")]
    /\ net = {}
    /\ sent = << >>

\* Node.utc_epoch reads another time, later or earlier than the last reading
TClock ==
    \E n \in DOMAIN replicas : \E t \in Clock \ {replicas[n].utc_epoch} :
        /\ replicas[n].raised = NoName
        /\ replicas' = [replicas EXCEPT ![n].utc_epoch = t]
        /\ UNCHANGED <<net, sent>>

TReceivePrePrepare ==
    \E n \in DOMAIN replicas : \E s \in TSeqNos : \E t \in Clock :
        Receive3PC(n, {PrePrepareFor(replicas[n], 0, s, t, ReqOf(s))}, {replicas[n].primaryName} \ {n})

TReceivePrepare ==
    \E n \in DOMAIN replicas : \E s \in TSeqNos : \E t \in Clock :
        Receive3PC(n, {MakePrepare(PrePrepareFor(replicas[n], 0, s, t, ReqOf(s)))},
                   {"N4"})

TSend3PCBatch == \E n \in DOMAIN replicas : Send3PCBatch(n)

TimeNext ==
    \/ TClock
    \/ TReceivePrePrepare
    \/ TReceivePrepare
    \/ TSend3PCBatch

TimeSpec == TimeInit /\ [][TimeNext]_vars

(* ------------------- times of consecutive PRE-PREPAREs ----------------- *)

CSeqNos == 1..2

\* the peers' PREPAREs that reach the replica before the PRE-PREPARE does
CPrepared == {2}

ClockInit ==
    /\ \E isMaster \in BOOLEAN :
          replicas = [x \in {"N2"} |->
                         readyFor3PC(readyFor3PC(
                             primaryChanged(InitReplica("N2", isMaster),
                                            PrimaryOf(0, IF isMaster THEN 0 ELSE 1)), "r1"), "r2")]
    /\ net = {}
    /\ sent = << >>

CReceivePrePrepare ==
    \E n \in DOMAIN replicas : \E s \in CSeqNos : \E t \in Clock :
        Receive3PC(n, {PrePrepareFor(replicas[n], 0, s, t, ReqOf(s))}, {replicas[n].primaryName} \ {n})

CReceivePrepare ==
    \E n \in DOMAIN replicas : \E s \in CPrepared :
        Receive3PC(n, {MakePrepare(PrePrepareFor(replicas[n], 0, s, 1, ReqOf(s)))},
                   {"N4"})

CSend3PCBatch == \E n \in DOMAIN replicas : Send3PCBatch(n)

CDequeuePrePrepares == \E n \in DOMAIN replicas : DequeuePrePrepares(n)

ClockNext ==
    \/ TClock
    \/ CReceivePrePrepare
    \/ CReceivePrepare
    \/ CSend3PCBatch
    \/ CDequeuePrePrepares

ClockSpec == ClockInit /\ [][ClockNext]_vars

(* ------------------- a node and its view changer ----------------------- *)

\* the views the peers propose
ProposedViews == 0..(MaxView + 1)

VoteInit ==
    /\ replicas = [n \in {"N3"} |-> primaryChanged(InitReplica(n, TRUE), PrimaryOf(0, 0))]
    /\ net = {}
    /\ sent = << >>

\* an INSTANCE_CHANGE of a peer arrives
ReceiveInstanceChange ==
    \E n \in DOMAIN replicas : \E frm \in Nodes \ {n} : \E v \in ProposedViews : \E degraded \in BOOLEAN :
        Step(n, process_instance_change_msg(replicas[n], v, frm, degraded))

\* the throttler's window has passed: the next INSTANCE_CHANGE may be sent
ThrottleWindowEnds ==
    \E n \in DOMAIN replicas :
        /\ replicas[n].insChngThrottled
        /\ Step(n, [replicas[n] EXCEPT !.insChngThrottled = FALSE])

\* the periodic performance check
MasterDegraded ==
    \E n \in DOMAIN replicas : \E new_ordered, degraded \in BOOLEAN :
        /\ replicas[n].viewNo < MaxView
        /\ Step(n, checkPerformance(replicas[n], new_ordered, degraded))

\* the view change timeout has passed
CheckViewChangeCompleted ==
    \E n \in DOMAIN replicas :
        /\ "check_view_change_completed" \in replicas[n].scheduled
        /\ Step(n, check_view_change_completed(replicas[n]))

OAllLedgersCaughtUp ==
    \E n \in DOMAIN replicas : AllLedgersCaughtUp(n, replicas[n].last_ordered_3pc)

OSelectPrimaries == \E n \in DOMAIN replicas : SelectPrimaries(n)

VoteNext ==
    \/ ReceiveInstanceChange
    \/ ThrottleWindowEnds
    \/ MasterDegraded
    \/ CheckViewChangeCompleted
    \/ OAllLedgersCaughtUp
    \/ OSelectPrimaries

VoteSpec == VoteInit /\ [][VoteNext]_vars

(* ------------------- a node and its connections ----------------------- *)

\* the node has connected to all its peers and selected the primary of view 0
ConnInit ==
    /\ replicas = [n \in {"N3"} |->
                       primary_selected(
                           primaryChanged(onConnsChanged(InitReplica(n, TRUE), Nodes \ {n}, {}),
                                          PrimaryOf(0, 0)))]
    /\ net = {}
    /\ sent = << >>

Joined ==
    \E n \in DOMAIN replicas : \E p \in Nodes \ ({n} \cup replicas[n].conns) :
        Step(n, onConnsChanged(replicas[n], {p}, {}))

Left ==
    \E n \in DOMAIN replicas : \E p \in replicas[n].conns :
        Step(n, onConnsChanged(replicas[n], {}, {p}))

\* ToleratePrimaryDisconnection has passed
ProposeViewChange ==
    \E n \in DOMAIN replicas :
        /\ "propose_view_change" \in replicas[n].scheduled
        /\ Step(n, propose_view_change(replicas[n]))

ConnNext ==
    \/ Joined
    \/ Left
    \/ ProposeViewChange
    \/ ReceiveInstanceChange
    \/ ThrottleWindowEnds
    \/ OAllLedgersCaughtUp
    \/ OSelectPrimaries

ConnSpec == ConnInit /\ [][ConnNext]_vars

(* ------------------- a pool that comes back to quorum ------------------ *)

\* the nodes that stay up; the master primary N1 has gone and does not return
Remaining == {"N2", "N3", "N4"}

\* the node has connected to every peer and selected the primary of view 0
StartedNode(n) ==
    primary_selected(
        primaryChanged(onConnsChanged(InitReplica(n, TRUE), Nodes \ {n}, {}), PrimaryOf(0, 0)))

\* N4 has lost its connections, then N1 has gone
QuorumInit ==
    /\ replicas = [n \in Remaining |->
                       IF n = "N4"
                       THEN onConnsChanged(onConnsChanged(onConnsChanged(StartedNode(n),
                                {}, {"N2"}), {}, {"N3"}), {}, {"N1"})
                       ELSE onConnsChanged(onConnsChanged(StartedNode(n), {}, {"N4"}), {}, {"N1"})]
    /\ net = {}
    /\ sent = << >>

\* the INSTANCE_CHANGEs a handler sent go to the connected peers
QStep(n, new, taken) ==
    /\ replicas[n].raised = NoName
    /\ Bounded(new)
    /\ replicas' = [replicas EXCEPT ![n] = Served(replicas[n], new)]
    /\ net' = (net \ taken) \cup {<<d, n, m>> : d \in new.conns \cap Remaining,
                                                m \in {new.instanceChangesSent[i] :
                                                          i \in (Len(replicas[n].instanceChangesSent) + 1)
                                                                ..Len(new.instanceChangesSent)}}
    /\ UNCHANGED sent

QJoined ==
    \E n \in DOMAIN replicas : \E p \in Remaining \ ({n} \cup replicas[n].conns) :
        QStep(n, onConnsChanged(replicas[n], {p}, {}), {})

QProposeViewChange ==
    \E n \in DOMAIN replicas :
        /\ "propose_view_change" \in replicas[n].scheduled
        /\ QStep(n, propose_view_change(replicas[n]), {})

QDeliver ==
    \E e \in net :
        QStep(e[1], process_instance_change_msg(replicas[e[1]], e[3].viewNo, e[2], FALSE), {e})

QuorumNext ==
    \/ QJoined
    \/ QProposeViewChange
    \/ QDeliver

\* the nodes reconnect, the looper runs the timers that are due and the
\* transport delivers every message between connected nodes
QuorumSpec ==
    /\ QuorumInit /\ [][QuorumNext]_vars
    /\ WF_vars(QJoined) /\ WF_vars(QProposeViewChange) /\ WF_vars(QDeliver)

(* ------------------- a node that completes a view change --------------- *)

\* the ledger sizes the peers report in VIEW_CHANGE_DONE
LedgerSizes == 0..1

DoneInit ==
    /\ replicas = [n \in {"N3"} |-> primaryChanged(InitReplica(n, TRUE), PrimaryOf(0, 0))]
    /\ net = {}
    /\ sent = << >>

DStartViewChange == \E n \in DOMAIN replicas : StartViewChange(n)

\* the catch-up ends; it has brought the ledger to the size the pool reports, or nothing
DAllLedgersCaughtUp ==
    \E n \in DOMAIN replicas : \E key \in {replicas[n].last_ordered_3pc, <<0, 1>>} :
        AllLedgersCaughtUp(n, key)

\* a VIEW_CHANGE_DONE of a peer arrives
ReceiveViewChangeDone ==
    \E n \in DOMAIN replicas : \E frm \in Nodes \ {n} : \E v \in 0..MaxView :
        \E name \in Nodes \ {n} : \E size \in LedgerSizes :
            Step(n, process_vchd_msg(replicas[n],
                                     [type |-> VIEW_CHANGE_DONE, viewNo |-> v, name |-> name, ledgerInfo |-> size],
                                     frm))

DoneNext ==
    \/ DStartViewChange
    \/ DAllLedgersCaughtUp
    \/ ReceiveViewChangeDone

DoneSpec == DoneInit /\ [][DoneNext]_vars

(* ------------------- a node and the views of its peers ----------------- *)

ViewNoInit ==
    /\ replicas = [n \in {"N3"} |-> primaryChanged(InitReplica(n, TRUE), PrimaryOf(0, 0))]
    /\ net = {}
    /\ sent = << >>

\* the peers whose votes reach the node
ViewNoPeers == {"N1", "N2"}

VnReceiveInstanceChange ==
    \E n \in DOMAIN replicas : \E frm \in ViewNoPeers : \E v \in ProposedViews : \E degraded \in BOOLEAN :
        Step(n, process_instance_change_msg(replicas[n], v, frm, degraded))

\* a VIEW_CHANGE_DONE of a peer for a view the node has not reached:
\* Node.msgHasAcceptableViewNo hands it to the view changer as an indication
ReceiveFutureViewChangeDone ==
    \E n \in DOMAIN replicas : \E frm \in ViewNoPeers : \E v \in ProposedViews :
        /\ v > replicas[n].viewNo
        /\ Step(n, on_future_view_vchd_msg(replicas[n], v, frm))

VnReceiveViewChangeDone ==
    \E n \in DOMAIN replicas : \E frm \in ViewNoPeers : \E v \in ProposedViews :
        Step(n, process_vchd_msg(replicas[n],
                                 [type |-> VIEW_CHANGE_DONE, viewNo |-> v,
                                  name |-> PrimaryOf(v, 0), ledgerInfo |-> 0],
                                 frm))

VnAllLedgersCaughtUp ==
    \E n \in DOMAIN replicas : AllLedgersCaughtUp(n, replicas[n].last_ordered_3pc)

VnSelectPrimaries == \E n \in DOMAIN replicas : SelectPrimaries(n)

ViewNoNext ==
    \/ VnReceiveInstanceChange
    \/ ReceiveFutureViewChangeDone
    \/ VnReceiveViewChangeDone
    \/ VnAllLedgersCaughtUp
    \/ VnSelectPrimaries

ViewNoSpec == ViewNoInit /\ [][ViewNoNext]_vars

(* ------------------- a pool of nodes ----------------------------------- *)

\* Node.send of the messages a handler left in the outBox: one copy per peer.
\* net holds <<destination, sender, message>> for every copy not yet delivered.
Broadcast(n, new) == {<<d, n, m>> : d \in DOMAIN replicas \ {n}, m \in Sends(new)}

PoolStep(n, new, taken) ==
    /\ replicas[n].raised = NoName
    /\ replicas' = [replicas EXCEPT ![n] = Served(replicas[n], new)]
    /\ sent' = sent \o PrePreparesSent(n, new)
    /\ net' = (net \ taken) \cup Broadcast(n, new)

\* Node.handleOneNodeMsg down to the replica's inBox: the node delivers one copy
Deliver(n) ==
    \E e \in net :
        /\ e[1] = n
        /\ msgHasAcceptableViewNo(replicas[n], e[3].viewNo)
        /\ PoolStep(n, IF e[3].type = CHECKPOINT
                       THEN processCheckpoint(replicas[n], e[3], e[2])
                       ELSE processThreePhaseMsg(replicas[n], e[3], e[2]), {e})

\* a message of a faulty node, which reaches one node and is not in net
FromFaulty(n, msg, faulty) ==
    /\ msgHasAcceptableViewNo(replicas[n], msg.viewNo)
    /\ PoolStep(n, processThreePhaseMsg(replicas[n], msg, faulty), {})

(* ------------------- correct backups under a faulty primary ------------ *)

\* the master primary of view 0 is faulty; the other nodes are correct
Faulty == PrimaryOf(0, 0)

AgreeInit ==
    /\ replicas = [n \in Nodes \ {Faulty} |->
                       readyFor3PC(readyFor3PC(
                           primaryChanged(InitReplica(n, TRUE), PrimaryOf(0, 0)), "r1"), "r2")]
    /\ net = {}
    /\ sent = << >>

\* the faulty primary sends a backup one PRE-PREPARE for (0, 1), with either request
AFaultyPrePrepare ==
    \E n \in DOMAIN replicas : \E req \in Reqs :
        /\ ~hasPrePrepare(replicas[n], <<0, 1>>)
        /\ FromFaulty(n, PrePrepareFor(replicas[n], 0, 1, 1, req), Faulty)

\* and, after it, one COMMIT for the key
AFaultyCommit ==
    \E n \in DOMAIN replicas :
        /\ hasPrePrepare(replicas[n], <<0, 1>>)
        /\ ~hasVoteFrom(replicas[n].commits, <<0, 1>>, Faulty)
        /\ FromFaulty(n, MakeCommitFor(0, 1), Faulty)

ADeliver == \E n \in DOMAIN replicas : Deliver(n)

AgreeNext ==
    \/ AFaultyPrePrepare
    \/ AFaultyCommit
    \/ ADeliver

AgreeSpec == AgreeInit /\ [][AgreeNext]_vars

(* ------------------- a master replica in two views --------------------- *)

\* the request the primary of a view batches first
FirstReqOf(viewNo) == IF viewNo = 0 THEN "r1" ELSE "r2"

ForkInit ==
    /\ replicas = [n \in {"N3"} |->
                       readyFor3PC(readyFor3PC(
                           primaryChanged(InitReplica(n, TRUE), PrimaryOf(0, 0)), "r1"), "r2")]
    /\ net = {}
    /\ sent = << >>

\* the first PRE-PREPARE of the current view
KFirst(r) == PrePrepareFor(r, r.viewNo, 1, 1, FirstReqOf(r.viewNo))

KReceivePrePrepare ==
    \E n \in DOMAIN replicas :
        /\ hasPrimary(replicas[n])
        /\ Receive3PC(n, {KFirst(replicas[n])}, {replicas[n].primaryName} \ {n})

KReceivePrepare ==
    \E n \in DOMAIN replicas :
        /\ hasPrimary(replicas[n])
        /\ Receive3PC(n, {MakePrepare(KFirst(replicas[n]))}, Nodes \ {n, replicas[n].primaryName})

KReceiveCommit ==
    \E n \in DOMAIN replicas : \E v \in 0..replicas[n].viewNo :
        Receive3PC(n, {MakeCommitFor(v, 1)}, Nodes \ {n})

KStartViewChange == \E n \in DOMAIN replicas : StartViewChange(n)

KAllLedgersCaughtUp ==
    \E n \in DOMAIN replicas : AllLedgersCaughtUp(n, replicas[n].last_ordered_3pc)

KSelectPrimaries == \E n \in DOMAIN replicas : SelectPrimaries(n)

ForkNext ==
    \/ KReceivePrePrepare
    \/ KReceivePrepare
    \/ KReceiveCommit
    \/ KStartViewChange
    \/ KAllLedgersCaughtUp
    \/ KSelectPrimaries

ForkSpec == ForkInit /\ [][ForkNext]_vars

(* ------------------- a master replica whose node catches up ------------ *)

\* what the ledger manager reports as last_caught_up_3PC when the catch-up has
\* brought no transaction: nothing, or the batch the node has ordered last
SCaughtUpKeys(r) == {<<0, 0>>, r.last_ordered_3pc}

SAllLedgersCaughtUp ==
    \E n \in DOMAIN replicas : \E key \in SCaughtUpKeys(replicas[n]) : AllLedgersCaughtUp(n, key)

StashNext ==
    \/ KReceivePrePrepare
    \/ KReceivePrepare
    \/ KReceiveCommit
    \/ KStartViewChange
    \/ SAllLedgersCaughtUp
    \/ KSelectPrimaries

StashSpec == ForkInit /\ [][StashNext]_vars

(* ------------------- a node and the requests of a client --------------- *)

Clients == {"C1"}

\* the requests the client sends
QReqs == {"r1"}

RequestInit ==
    /\ replicas = [n \in {"N3"} |-> primaryChanged(InitReplica(n, TRUE), PrimaryOf(0, 0))]
    /\ net = {}
    /\ sent = << >>

\* the peers whose PROPAGATEs reach the node
QPeers == {"N1", "N2"}

QProcessRequest ==
    \E n \in DOMAIN replicas : \E req \in QReqs : \E frm \in Clients :
        Step(n, processRequest(replicas[n], req, frm))

\* a peer sends its PROPAGATE of a request once
QProcessPropagate ==
    \E n \in DOMAIN replicas : \E req \in QReqs : \E clientName \in Clients : \E frm \in QPeers :
        /\ frm \notin Votes(replicas[n], req)
        /\ Step(n, processPropagate(replicas[n], req, clientName, frm))

\* the pool has ordered the first batch of view 0 when the catch-up brings it
QCaughtUpKeys(r) == {r.last_ordered_3pc, <<0, 1>>}

QAllLedgersCaughtUp ==
    \E n \in DOMAIN replicas : \E key \in QCaughtUpKeys(replicas[n]) : AllLedgersCaughtUp(n, key)

RequestNext ==
    \/ QProcessRequest
    \/ QProcessPropagate
    \/ KReceivePrePrepare
    \/ KReceivePrepare
    \/ KReceiveCommit
    \/ KStartViewChange
    \/ QAllLedgersCaughtUp

RequestSpec == RequestInit /\ [][RequestNext]_vars

(* ------------------- a node whose pool grows and shrinks --------------- *)

MaxNodes == 120

PoolInit ==
    /\ replicas = [n \in {"N3"} |-> setPoolParams(N)]
    /\ net = {}
    /\ sent = << >>

\* a NODE transaction adds a node to the registry
NodeAdded ==
    \E n \in DOMAIN replicas :
        /\ replicas[n].totalNodes < MaxNodes
        /\ replicas' = [replicas EXCEPT ![n] = setPoolParams(replicas[n].totalNodes + 1)]
        /\ UNCHANGED <<net, sent>>

\* a NODE transaction takes a node out of the registry
NodeRemoved ==
    \E n \in DOMAIN replicas :
        /\ replicas[n].totalNodes > 1
        /\ replicas' = [replicas EXCEPT ![n] = setPoolParams(replicas[n].totalNodes - 1)]
        /\ UNCHANGED <<net, sent>>

PoolNext ==
    \/ NodeAdded
    \/ NodeRemoved

PoolSpec == PoolInit /\ [][PoolNext]_vars

(* ------------------- a node and the primaries of its instances --------- *)

\* in this part a node of the registry is named by its rank, 0..totalNodes-1
NoRank == -1

MaxPool == 10

MaxElectView == 8

\* PrimarySelector.next_primary_replica_name_for_master
next_primary_replica_name_for_master(viewNo, totalNodes) == viewNo % totalNodes

\* PrimarySelector.next_primary_replica_name_for_backup: the first rank from
\* (primary_rank + instance_id) mod N on that is no primary yet
RECURSIVE next_primary_replica_name_for_backup(_, _, _, _)
next_primary_replica_name_for_backup(instance_id, primary_rank, primaries, totalNodes) ==
    LET rank == (primary_rank + instance_id) % totalNodes
    IN  IF rank \notin primaries THEN rank
        ELSE next_primary_replica_name_for_backup(instance_id, rank + 1 - instance_id, primaries, totalNodes)

\* Node.adjustReplicas: primaryNames holds the primary of each instance
adjustReplicas(node) ==
    LET required == node.params.requiredNumberOfInstances
        have == Len(node.primaryNames)
    IN  IF have < required
        THEN [node EXCEPT !.primaryNames = @ \o [i \in 1..(required - have) |-> NoRank]]
        ELSE [node EXCEPT !.primaryNames = SubSeq(@, 1, required)]

\* the second loop of Node.select_primaries from the instance i - 1 on
RECURSIVE SelectFrom(_, _, _, _)
SelectFrom(node, i, primaries, primary_rank) ==
    IF i > Len(node.primaryNames) THEN node
    ELSE IF node.primaryNames[i] # NoRank THEN SelectFrom(node, i + 1, primaries, primary_rank)
    ELSE LET new_primary_name ==
                 IF i = 1 THEN next_primary_replica_name_for_master(node.viewNo, node.params.totalNodes)
                 ELSE next_primary_replica_name_for_backup(i - 1, primary_rank, primaries,
                                                           node.params.totalNodes)
         IN  SelectFrom([node EXCEPT !.primaryNames[i] = new_primary_name], i + 1,
                        primaries \cup {new_primary_name},
                        IF i = 1 THEN new_primary_name ELSE primary_rank)

\* the primaries that the instances have are not collected first
SelectWithoutPrimaries(node) ==
    SelectFrom(node, 1, {}, node.primaryNames[1])

\* Node.select_primaries over the instances of the node
node_select_primaries(node) ==
    SelectFrom(node, 1, {node.primaryNames[i] : i \in DOMAIN node.primaryNames} \ {NoRank},
               node.primaryNames[1])

\* Node.nodeJoined, the pool ledger being synced
nodeJoined(node) ==
    LET node1 == adjustReplicas([node EXCEPT !.params = setPoolParams(node.params.totalNodes + 1)])
    IN  IF Len(node1.primaryNames) > Len(node.primaryNames) /\ ~node.view_change_in_progress
        THEN node_select_primaries(node1)
        ELSE node1

\* Node.nodeLeft
nodeLeft(node) == adjustReplicas([node EXCEPT !.params = setPoolParams(node.params.totalNodes - 1)])

ElectInit ==
    /\ replicas = [n \in {"N3"} |->
                       node_select_primaries(adjustReplicas(
                           [params |-> setPoolParams(N), viewNo |-> 0, primaryNames |-> << >>,
                            view_change_in_progress |-> FALSE]))]
    /\ net = {}
    /\ sent = << >>

ElectStep(n, new) ==
    /\ replicas' = [replicas EXCEPT ![n] = new]
    /\ UNCHANGED <<net, sent>>

ENodeJoined ==
    \E n \in DOMAIN replicas :
        /\ replicas[n].params.totalNodes < MaxPool
        /\ ElectStep(n, nodeJoined(replicas[n]))

\* the node of the highest rank leaves when it is no primary
ENodeLeft ==
    \E n \in DOMAIN replicas :
        /\ replicas[n].params.totalNodes > N
        /\ replicas[n].params.totalNodes - 1 \notin SeqToSet(replicas[n].primaryNames)
        /\ ElectStep(n, nodeLeft(replicas[n]))

\* ViewChanger.startViewChange: no instance has a primary in the new view yet
EStartViewChange ==
    \E n \in DOMAIN replicas :
        /\ replicas[n].viewNo < MaxElectView
        /\ ElectStep(n, [replicas[n] EXCEPT !.viewNo = @ + 1,
                                            !.view_change_in_progress = TRUE,
                                            !.primaryNames = [i \in DOMAIN @ |-> NoRank]])

\* ViewChanger._start_selection: the primaries of the new view
ESelectPrimaries ==
    \E n \in DOMAIN replicas :
        /\ replicas[n].view_change_in_progress
        /\ ElectStep(n, [node_select_primaries(replicas[n]) EXCEPT !.view_change_in_progress = FALSE])

ElectNext ==
    \/ ENodeJoined
    \/ ENodeLeft
    \/ EStartViewChange
    \/ ESelectPrimaries

ElectSpec == ElectInit /\ [][ElectNext]_vars

(* ------------------- a backup instance on two nodes -------------------- *)

BackupNodes == {"N3", "N4"}

\* the backup instance 1 on two nodes that are not its primary; r1 is finalised
BackupInit ==
    /\ replicas = [n \in BackupNodes |->
                       readyFor3PC(primaryChanged(InitReplica(n, FALSE), PrimaryOf(0, 1)), "r1")]
    /\ net = {}
    /\ sent = << >>

\* the batch of the instance in view 0
BFirst(r) == PrePrepareFor(r, 0, 1, 1, "r1")

BReceivePrePrepare ==
    \E n \in DOMAIN replicas :
        /\ hasPrimary(replicas[n])
        /\ Receive3PC(n, {BFirst(replicas[n])}, {replicas[n].primaryName})

BReceivePrepare ==
    \E n \in DOMAIN replicas : Receive3PC(n, {MakePrepare(BFirst(replicas[n]))}, {"N1"})

BReceiveCommit ==
    \E n \in DOMAIN replicas : Receive3PC(n, {MakeCommitFor(0, 1)}, {"N1", "N2"})

\* the last_ordered_3pc of the master replica of the node, which has ordered
\* the batches that the node has executed
MasterLastOrdered(r) == <<0, r.committedSize>>

\* the master instance of the node orders its first batch and the node executes it
BMasterExecutes ==
    \E n \in DOMAIN replicas :
        /\ replicas[n].committedSize = 0
        /\ isParticipating(replicas[n])
        /\ replicas[n].viewNo = 0
        /\ Step(n, commitAndSendReplies([replicas[n] EXCEPT !.applied = <<"r1">>], 1))

BStartViewChange ==
    \E n \in DOMAIN replicas :
        /\ replicas[n].viewNo < MaxView
        /\ Step(n, startViewChange(replicas[n], replicas[n].viewNo + 1, FALSE))

\* the catch-up finds the master replica of the node up to date
BAllLedgersCaughtUp ==
    \E n \in DOMAIN replicas :
        /\ replicas[n].mode = "starting"
        /\ Step(n, allLedgersCaughtUp(replicas[n], MasterLastOrdered(replicas[n]), << >>, FALSE, "done"))

BSelectPrimaries ==
    \E n \in DOMAIN replicas :
        /\ replicas[n].view_change_in_progress
        /\ replicas[n].mode = "synced"
        /\ ~hasPrimary(replicas[n])
        /\ Step(n, select_primaries(replicas[n], MasterLastOrdered(replicas[n])))

BackupNext ==
    \/ BReceivePrePrepare
    \/ BReceivePrepare
    \/ BReceiveCommit
    \/ BMasterExecutes
    \/ BStartViewChange
    \/ BAllLedgersCaughtUp
    \/ BSelectPrimaries

BackupSpec == BackupInit /\ [][BackupNext]_vars

(* ------------------- the COMMITs of a replica -------------------------- *)

IsCommit(m) == m.type = COMMIT

\* the COMMITs a handler has put in the outBox, in the order of sending
CommitsSent(n, new) ==
    IF new.raised # NoName THEN << >>
    ELSE LET cms == SelectSeq(new.outBox, IsCommit)
         IN  [i \in DOMAIN cms |-> <<n, cms[i]>>]

\* a step of which the COMMITs sent are recorded
MStep(n, new) ==
    /\ replicas[n].raised = NoName
    /\ Bounded(new)
    /\ replicas' = [replicas EXCEPT ![n] = Served(replicas[n], new)]
    /\ sent' = sent \o CommitsSent(n, new)
    /\ UNCHANGED net

\* the master replica of N1, the primary of view 0; r1 and r2 are finalised
CommitInit ==
    /\ replicas = [n \in {"N1"} |->
                       readyFor3PC(readyFor3PC(
                           primaryChanged(InitReplica(n, TRUE), PrimaryOf(0, 0)), "r1"), "r2")]
    /\ net = {}
    /\ sent = << >>

\* the first batch of the view of the replica: the one it holds, or the one
\* the primary of the view sends
MFirst(r) ==
    IF hasPrePrepare(r, <<r.viewNo, 1>>) THEN getPrePrepare(r, <<r.viewNo, 1>>) ELSE KFirst(r)

BadDigest == <<"sha256", "r3">>

MSend3PCBatch ==
    \E n \in DOMAIN replicas :
        /\ isPrimary(replicas[n]) = "True"
        /\ isParticipating(replicas[n])
        /\ replicas[n].lastPrePrepareSeqNo < 1
        /\ MStep(n, send3PCBatch(replicas[n]))

MReceive3PC(n, msgs, senders) ==
    \E sender \in senders : \E msg \in msgs :
        /\ msgHasAcceptableViewNo(replicas[n], msg.viewNo)
        /\ MStep(n, processThreePhaseMsg(replicas[n], msg, sender))

MReceivePrePrepare ==
    \E n \in DOMAIN replicas :
        /\ hasPrimary(replicas[n])
        /\ MReceive3PC(n, {KFirst(replicas[n])}, {replicas[n].primaryName} \ {n})

\* a PREPARE of the batch, or one of another digest, from any other node
MReceivePrepare ==
    \E n \in DOMAIN replicas :
        LET prepare == MakePrepare(MFirst(replicas[n]))
        IN  MReceive3PC(n, {prepare, [prepare EXCEPT !.digest = BadDigest]}, Nodes \ {n})

MReceiveCommit ==
    \E n \in DOMAIN replicas : MReceive3PC(n, {MakeCommitFor(replicas[n].viewNo, 1)}, {"N3", "N4"})

MStartViewChange ==
    \E n \in DOMAIN replicas :
        /\ replicas[n].viewNo < MaxView
        /\ MStep(n, startViewChange(replicas[n], replicas[n].viewNo + 1, FALSE))

MAllLedgersCaughtUp ==
    \E n \in DOMAIN replicas :
        /\ replicas[n].mode = "starting"
        /\ MStep(n, allLedgersCaughtUp(replicas[n], replicas[n].last_ordered_3pc, << >>, FALSE, "done"))

MSelectPrimaries ==
    \E n \in DOMAIN replicas :
        /\ replicas[n].view_change_in_progress
        /\ replicas[n].mode = "synced"
        /\ ~hasPrimary(replicas[n])
        /\ MStep(n, select_primaries(replicas[n], replicas[n].last_ordered_3pc))

CommitNext ==
    \/ MSend3PCBatch
    \/ MReceivePrePrepare
    \/ MReceivePrepare
    \/ MReceiveCommit
    \/ MStartViewChange
    \/ MAllLedgersCaughtUp
    \/ MSelectPrimaries

CommitSpec == CommitInit /\ [][CommitNext]_vars

(* ------------------- 3PC messages during a view change ----------------- *)

MaxPended == 2

PendBounded(r) ==
    /\ Bounded([r EXCEPT !.postElectionMsgs = << >>])
    /\ Len(r.postElectionMsgs) <= MaxPended

PendStep(n, new) ==
    /\ replicas[n].raised = NoName
    /\ PendBounded(new)
    /\ replicas' = [replicas EXCEPT ![n] = Served(replicas[n], new)]
    /\ sent' = sent \o PrePreparesSent(n, new)
    /\ UNCHANGED net

PendReceive3PC(n, msgs, senders) ==
    \E sender \in senders : \E msg \in msgs :
        /\ msgHasAcceptableViewNo(replicas[n], msg.viewNo)
        /\ PendStep(n, processThreePhaseMsg(replicas[n], msg, sender))

\* the primary of the view may have its primary before the replica has
PendReceivePrePrepare ==
    \E n \in DOMAIN replicas :
        PendReceive3PC(n, {KFirst(replicas[n])}, {PrimaryOf(replicas[n].viewNo, 0)})

PendReceivePrepare ==
    \E n \in DOMAIN replicas :
        PendReceive3PC(n, {MakePrepare(KFirst(replicas[n]))}, {"N4"})

PendReceiveCommit ==
    \E n \in DOMAIN replicas : \E v \in 0..replicas[n].viewNo :
        PendReceive3PC(n, {MakeCommitFor(v, 1)}, Nodes \ {n})

PendStartViewChange ==
    \E n \in DOMAIN replicas :
        /\ replicas[n].viewNo < MaxView
        /\ PendStep(n, startViewChange(replicas[n], replicas[n].viewNo + 1, FALSE))

PendAllLedgersCaughtUp ==
    \E n \in DOMAIN replicas :
        /\ replicas[n].mode = "starting"
        /\ PendStep(n, allLedgersCaughtUp(replicas[n], replicas[n].last_ordered_3pc, << >>, FALSE, "done"))

PendSelectPrimaries ==
    \E n \in DOMAIN replicas :
        /\ replicas[n].view_change_in_progress
        /\ replicas[n].mode = "synced"
        /\ ~hasPrimary(replicas[n])
        /\ PendStep(n, select_primaries(replicas[n], replicas[n].last_ordered_3pc))

PendNext ==
    \/ PendReceivePrePrepare
    \/ PendReceivePrepare
    \/ PendReceiveCommit
    \/ PendStartViewChange
    \/ PendAllLedgersCaughtUp
    \/ PendSelectPrimaries

PendSpec == ForkInit /\ [][PendNext]_vars

(* ------------------- batches of an earlier view ------------------------ *)

\* the two batches of view 0, as the primary of view 0 sends them
OldBatches(r) ==
    {PrePrepareFor(r, 0, 1, 1, "r1"),
     PrePrepareFor([r EXCEPT !.applied = <<"r1">>], 0, 2, 1, "r2")}

OldReceivePrePrepare ==
    \E n \in DOMAIN replicas :
        Receive3PC(n, OldBatches(InitReplica(n, TRUE)), {PrimaryOf(0, 0)})

OldReceivePrepare ==
    \E n \in DOMAIN replicas :
        Receive3PC(n, {MakePrepare(pp) : pp \in OldBatches(InitReplica(n, TRUE))}, {"N2"})

OldReceiveCommit ==
    \E n \in DOMAIN replicas :
        Receive3PC(n, {MakeCommitFor(0, 1), MakeCommitFor(0, 2)}, {"N1", "N2"})

OldProcessStashedOutOfOrderCommits ==
    \E n \in DOMAIN replicas : ProcessStashedOutOfOrderCommits(n)

OldStartViewChange ==
    \E n \in DOMAIN replicas :
        /\ replicas[n].viewNo < MaxView
        /\ Step(n, startViewChange(replicas[n], replicas[n].viewNo + 1, FALSE))

OldAllLedgersCaughtUp ==
    \E n \in DOMAIN replicas :
        /\ replicas[n].mode = "starting"
        /\ Step(n, allLedgersCaughtUp(replicas[n], replicas[n].last_ordered_3pc, << >>, FALSE, "done"))

OldSelectPrimaries ==
    \E n \in DOMAIN replicas :
        /\ replicas[n].view_change_in_progress
        /\ replicas[n].mode = "synced"
        /\ ~hasPrimary(replicas[n])
        /\ Step(n, select_primaries(replicas[n], replicas[n].last_ordered_3pc))

OldViewNext ==
    \/ OldReceivePrePrepare
    \/ OldReceivePrepare
    \/ OldReceiveCommit
    \/ OldProcessStashedOutOfOrderCommits
    \/ OldStartViewChange
    \/ OldAllLedgersCaughtUp
    \/ OldSelectPrimaries

OldViewSpec == ForkInit /\ [][OldViewNext]_vars

(* ------------------- PRE-PREPAREs that do not apply -------------------- *)

\* the next PRE-PREPARE of the primary of view 0, as the replica expects it
NextBatch(r) ==
    LET seq == r.lastPrePrepareSeqNo + 1
    IN  PrePrepareFor(r, 0, seq, 1, IF seq = 1 THEN "r1" ELSE "r2")

\* the PRE-PREPAREs that declare what the replica does not find, each with
\* the suspicion its check raises
WrongBatches(pp) ==
    {<<[pp EXCEPT !.discarded = @ + 1], "PPR_REJECT_WRONG">>,
     <<[pp EXCEPT !.digest = BadDigest], "PPR_DIGEST_WRONG">>,
     <<[pp EXCEPT !.stateRootHash = StateRoot(<<"r3">>)], "PPR_STATE_WRONG">>,
     <<[pp EXCEPT !.txnRootHash = TxnRoot(<<"r3">>)], "PPR_TXN_WRONG">>}

AReceivePrePrepare ==
    \E n \in DOMAIN replicas :
        /\ replicas[n].lastPrePrepareSeqNo < 2
        /\ Receive3PC(n, {NextBatch(replicas[n])}, {replicas[n].primaryName})

AReceiveWrongPrePrepare ==
    \E n \in DOMAIN replicas : \E wrong \in WrongBatches(NextBatch(replicas[n])) :
        /\ replicas[n].lastPrePrepareSeqNo < 2
        /\ Receive3PC(n, {wrong[1]}, {replicas[n].primaryName})

AReceivePrepare ==
    \E n \in DOMAIN replicas : \E key \in DOMAIN replicas[n].prePrepares :
        Receive3PC(n, {MakePrepare(replicas[n].prePrepares[key])}, {"N2", "N4"})

AReceiveCommit ==
    \E n \in DOMAIN replicas : \E key \in DOMAIN replicas[n].prePrepares :
        Receive3PC(n, {MakeCommitFor(key[1], key[2])}, {"N1", "N2"})

AThrottleWindowEnds ==
    \E n \in DOMAIN replicas :
        /\ replicas[n].insChngThrottled
        /\ Len(replicas[n].instanceChangesSent) < MaxInstanceChanges
        /\ Step(n, [replicas[n] EXCEPT !.insChngThrottled = FALSE])

ApplyNext ==
    \/ AReceivePrePrepare
    \/ AReceiveWrongPrePrepare
    \/ AReceivePrepare
    \/ AReceiveCommit
    \/ AThrottleWindowEnds

ApplySpec == ForkInit /\ [][ApplyNext]_vars

(* ------------------- CHECKPOINTs of the first interval ----------------- *)

\* the CHECKPOINT of the first interval as a node that ordered other batches sends it
WrongCheckpoint == [CheckpointFor(0, CHK_FREQ) EXCEPT !.digest = CheckpointDigest(<<BadDigest>>)]

CkReceivePrePrepare ==
    \E n \in DOMAIN replicas : \E s \in 1..CHK_FREQ :
        Receive3PC(n, {PrePrepareFor(replicas[n], 0, s, 1, ReqOf(s))}, {replicas[n].primaryName})

CkReceivePrepare ==
    \E n \in DOMAIN replicas : Receive3PC(n, WPrepares(replicas[n]), {"N4"})

CkReceiveCommit ==
    \E n \in DOMAIN replicas : Receive3PC(n, WCommits, {"N1", "N4"})

CkReceiveCheckpoint ==
    \E n \in DOMAIN replicas :
        ReceiveCheckpoint(n, {CheckpointFor(0, CHK_FREQ), WrongCheckpoint}, Nodes \ {n})

CheckpointNext ==
    \/ CkReceivePrePrepare
    \/ CkReceivePrepare
    \/ CkReceiveCommit
    \/ CkReceiveCheckpoint

CheckpointSpec == WatermarkInit /\ [][CheckpointNext]_vars

(* ------------------- checkpoint intervals and catch-up ----------------- *)

\* the batches of a run
MaxOrdered == 4

CAUGHT_UP == "CAUGHT_UP"

\* the catch-ups of a run that bring new transactions
MaxCatchups == 1

IsCaughtUp(ev) == ev[2].type = CAUGHT_UP

IsOrderedOrCheckpoint(m) == m.type \in {ORDERED, CHECKPOINT}

\* what the replica orders and the CHECKPOINTs it sends, in the order of its outBox
IntervalEvents(n, new) ==
    IF new.raised # NoName THEN << >>
    ELSE LET evs == SelectSeq(new.outBox, IsOrderedOrCheckpoint)
         IN  [i \in DOMAIN evs |-> <<n, evs[i]>>]

IStep(n, new, before) ==
    /\ replicas[n].raised = NoName
    /\ Bounded(new)
    /\ Len(new.applied) <= MaxOrdered
    /\ replicas' = [replicas EXCEPT ![n] = Served(replicas[n], new)]
    /\ sent' = sent \o before \o IntervalEvents(n, new)
    /\ UNCHANGED net

IReceive3PC(n, msgs, senders) ==
    \E sender \in senders : \E msg \in msgs :
        /\ msgHasAcceptableViewNo(replicas[n], msg.viewNo)
        /\ IStep(n, processThreePhaseMsg(replicas[n], msg, sender), << >>)

\* the batch the pool orders after the last one of the replica
NextSeqNos(r) == {r.last_ordered_3pc[2] + 1} \cap (1..MaxOrdered)

IReceivePrePrepare ==
    \E n \in DOMAIN replicas : \E s \in NextSeqNos(replicas[n]) :
        IReceive3PC(n, {PrePrepareFor(replicas[n], 0, s, 1, ReqOf(s))}, {replicas[n].primaryName})

IReceivePrepare ==
    \E n \in DOMAIN replicas : \E s \in NextSeqNos(replicas[n]) :
        IReceive3PC(n, {MakePrepare(PrePrepareFor(replicas[n], 0, s, 1, ReqOf(s)))}, {"N4"})

IReceiveCommit ==
    \E n \in DOMAIN replicas : \E s \in NextSeqNos(replicas[n]) :
        IReceive3PC(n, {MakeCommitFor(0, s)}, {"N1", "N4"})

IReceiveCheckpoint ==
    \E n \in DOMAIN replicas : \E sender \in Nodes \ {n} : \E e \in {CHK_FREQ, 2 * CHK_FREQ} :
        IStep(n, processCheckpoint(replicas[n], CheckpointFor(0, e), sender), << >>)

\* the transactions of the batches after the committed ledger up to a key
TxnsTill(r, key) == [i \in 1..(key[2] - r.committedSize) |-> ReqOf(r.committedSize + i)]

IAllLedgersCaughtUp ==
    \E n \in DOMAIN replicas : \E s \in 1..(MaxOrdered - 1) : \E outcome \in {"limit", "done"} :
        LET key == <<0, s>>
            ahead == compare_3PC_keys(replicas[n].last_ordered_3pc, key) > 0
        IN  /\ replicas[n].mode = "starting"
            /\ s >= replicas[n].committedSize
            /\ ahead => Len(SelectSeq(sent, IsCaughtUp)) < MaxCatchups
            /\ IStep(n, allLedgersCaughtUp(replicas[n], key,
                                           IF ahead THEN TxnsTill(replicas[n], key) ELSE << >>,
                                           ahead, outcome),
                     IF ahead THEN << <<n, [type |-> CAUGHT_UP, ppSeqNo |-> s]>> >> ELSE << >>)

IntervalNext ==
    \/ IReceivePrePrepare
    \/ IReceivePrepare
    \/ IReceiveCommit
    \/ IReceiveCheckpoint
    \/ IAllLedgersCaughtUp

IntervalSpec == ForkInit /\ [][IntervalNext]_vars

(* ------------------- a node that starts behind the pool ---------------- *)

\* the batches the pool has ordered, CHK_FREQ in each view, and its ledger
PoolKeys == [i \in 1..(CHK_FREQ * (MaxView + 1)) |->
                <<(i - 1) \div CHK_FREQ, ((i - 1) % CHK_FREQ) + 1>>]

PoolLedger == [i \in DOMAIN PoolKeys |-> ReqOf(i)]

\* the 3PC key of the last transaction of a ledger of the pool
PoolKeyAt(size) == IF size = 0 THEN <<0, 0>> ELSE PoolKeys[size]

\* the PRE-PREPARE of the i-th batch of the pool
PoolPrePrepare(i) ==
    MakePrePrepare(PoolKeys[i][1], PoolKeys[i][2], 1, <<PoolLedger[i]>>, 1,
                   batchDigest(<<PoolLedger[i]>>),
                   StateRoot(SubSeq(PoolLedger, 1, i)), TxnRoot(SubSeq(PoolLedger, 1, i)))

\* the batch of the view the replica is in that follows its last ordered one
BatchesOfView(r) ==
    {i \in DOMAIN PoolKeys :
        /\ PoolKeys[i][1] = r.viewNo
        /\ PoolKeys[i][2] = (IF r.last_ordered_3pc[1] = r.viewNo THEN r.last_ordered_3pc[2] ELSE 0) + 1}

\* Node.start: the node starts with a catch-up
RestartInit ==
    /\ replicas = [n \in {"N3"} |-> start_catchup(InitReplica(n, TRUE))]
    /\ net = {}
    /\ sent = << >>

\* the request of the next batch is finalised
RsFinalise == \E n \in DOMAIN replicas : \E i \in BatchesOfView(replicas[n]) :
    /\ PoolLedger[i] \notin replicas[n].requests
    /\ IStep(n, readyFor3PC(replicas[n], PoolLedger[i]), << >>)

RsReceivePrePrepare ==
    \E n \in DOMAIN replicas : \E i \in BatchesOfView(replicas[n]) :
        /\ hasPrimary(replicas[n])
        /\ IReceive3PC(n, {PoolPrePrepare(i)}, {replicas[n].primaryName})

RsReceivePrepare ==
    \E n \in DOMAIN replicas : \E i \in BatchesOfView(replicas[n]) :
        IReceive3PC(n, {MakePrepare(PoolPrePrepare(i))}, {"N4"})

\* the COMMITs of the peers for a batch whose PRE-PREPARE the replica holds
RsReceiveCommit ==
    \E n \in DOMAIN replicas : \E i \in BatchesOfView(replicas[n]) :
        /\ PoolKeys[i] \in DOMAIN replicas[n].prePrepares
        /\ IReceive3PC(n, {MakeCommitFor(PoolKeys[i][1], PoolKeys[i][2])}, {"N1", "N4"})

\* the CHECKPOINTs of the peers for the checkpoint the replica has made
RsReceiveCheckpoint ==
    \E n \in DOMAIN replicas : \E sender \in {"N1", "N4"} :
        /\ replicas[n].checkpoints # EmptyDict
        /\ IStep(n, processCheckpoint(replicas[n], CheckpointFor(replicas[n].viewNo, CHK_FREQ), sender), << >>)

\* a VIEW_CHANGE_DONE of a peer for the view the pool is in
RsReceiveFutureViewChangeDone ==
    \E n \in DOMAIN replicas : \E frm \in {"N1", "N4"} : \E v \in 1..MaxView :
        /\ v > replicas[n].viewNo
        /\ IStep(n, on_future_view_vchd_msg(replicas[n], v, frm), << >>)

\* Node.allLedgersCaughtUp with the selection of the primaries that ends it
\* when no view change is in progress
CaughtUpAndSelected(r, key, txns, ahead, outcome) ==
    LET Select(new) == IF new.view_change_in_progress THEN new
                       ELSE select_primaries(new, new.last_ordered_3pc)
    IN  Select(allLedgersCaughtUp(r, key, txns, ahead, outcome))

\* the catch-up ends with the ledger of the pool up to some batch
RsCaughtUp(n, size, outcome, ahead) ==
    /\ replicas[n].mode = "starting"
    /\ size >= replicas[n].committedSize
    /\ ahead <=> compare_3PC_keys(replicas[n].last_ordered_3pc, PoolKeyAt(size)) > 0
    /\ IStep(n, CaughtUpAndSelected(replicas[n], PoolKeyAt(size),
                                    SubSeq(PoolLedger, replicas[n].committedSize + 1, size),
                                    ahead, outcome),
             IF ahead
             THEN << <<n, [type |-> CAUGHT_UP, viewNo |-> PoolKeyAt(size)[1],
                           ppSeqNo |-> PoolKeyAt(size)[2]]>> >>
             ELSE << >>)

RsAllLedgersCaughtUp ==
    \E n \in DOMAIN replicas : \E size \in DOMAIN PoolKeys \cup {0} :
        \E outcome \in {"limit", "done"} : \E ahead \in BOOLEAN :
            RsCaughtUp(n, size, outcome, ahead)

RsSelectPrimaries == \E n \in DOMAIN replicas :
    /\ replicas[n].view_change_in_progress
    /\ replicas[n].mode = "synced"
    /\ ~hasPrimary(replicas[n])
    /\ IStep(n, select_primaries(replicas[n], replicas[n].last_ordered_3pc), << >>)

RestartNext ==
    \/ RsFinalise
    \/ RsReceivePrePrepare
    \/ RsReceivePrepare
    \/ RsReceiveCommit
    \/ RsReceiveCheckpoint
    \/ RsReceiveFutureViewChangeDone
    \/ RsAllLedgersCaughtUp
    \/ RsSelectPrimaries

RestartSpec == RestartInit /\ [][RestartNext]_vars

(* ------------------- a replica that lags in checkpoints ---------------- *)

\* a master or a backup replica that is or is not the primary of its instance
ThresholdInit ==
    /\ \E name \in {"N1", "N2", "N3"} : \E isMaster \in BOOLEAN :
          /\ name = "N1" => isMaster
          /\ name = "N2" => ~isMaster
          /\ replicas = [n \in {name} |->
                            readyFor3PC(readyFor3PC(
                                primaryChanged(InitReplica(n, isMaster),
                                               PrimaryOf(0, IF isMaster THEN 0 ELSE 1)), "r1"), "r2")]
    /\ net = {}
    /\ sent = << >>

\* the peers whose votes reach the replica
ThPeers(n) == {"N4", IF n = "N1" THEN "N2" ELSE "N1"}

\* the PRE-PREPAREs the replica has sent or accepted
KnownPrePrepares(r) ==
    {r.sentPrePrepares[k] : k \in DOMAIN r.sentPrePrepares} \cup {r.prePrepares[k] : k \in DOMAIN r.prePrepares}

ThSend3PCBatch ==
    \E n \in DOMAIN replicas :
        /\ isPrimary(replicas[n]) = "True"
        /\ isParticipating(replicas[n])
        /\ replicas[n].lastPrePrepareSeqNo < CHK_FREQ
        /\ Step(n, send3PCBatch(replicas[n]))

ThReceivePrePrepare ==
    \E n \in DOMAIN replicas : \E s \in NextSeqNos(replicas[n]) \cap (1..CHK_FREQ) :
        /\ isPrimary(replicas[n]) # "True"
        /\ Receive3PC(n, {PrePrepareFor(replicas[n], 0, s, 1, ReqOf(s))}, {replicas[n].primaryName})

ThReceivePrepare ==
    \E n \in DOMAIN replicas :
        Receive3PC(n, {MakePrepare(pp) : pp \in KnownPrePrepares(replicas[n])},
                   {"N4"})

ThReceiveCommit ==
    \E n \in DOMAIN replicas : \E s \in NextSeqNos(replicas[n]) \cap (1..CHK_FREQ) :
        Receive3PC(n, {MakeCommitFor(0, s)}, ThPeers(n))

ThReceiveCheckpoint ==
    \E n \in DOMAIN replicas : \E e \in {CHK_FREQ, 2 * CHK_FREQ} :
        ReceiveCheckpoint(n, {CheckpointFor(0, e)}, Nodes \ {n})

ThAllLedgersCaughtUp ==
    \E n \in DOMAIN replicas : \E s \in {CHK_FREQ, 2 * CHK_FREQ} : \E outcome \in {"limit", "done"} :
        LET key == <<0, s>>
            ahead == compare_3PC_keys(replicas[n].last_ordered_3pc, key) > 0
        IN  /\ replicas[n].mode = "starting"
            /\ s >= replicas[n].committedSize
            /\ Step(n, allLedgersCaughtUp(replicas[n], key,
                                          IF ahead THEN TxnsTill(replicas[n], key) ELSE << >>,
                                          ahead, outcome))

ThresholdNext ==
    \/ ThSend3PCBatch
    \/ ThReceivePrePrepare
    \/ ThReceivePrepare
    \/ ThReceiveCommit
    \/ ThReceiveCheckpoint
    \/ ThAllLedgersCaughtUp

ThresholdSpec == ThresholdInit /\ [][ThresholdNext]_vars

(* ------------------- a primary through view change --------------------- *)

\* the looper runs serviceQueues whatever the state of the node
SvServiceQueues ==
    \E n \in DOMAIN replicas :
        /\ replicas[n].lastPrePrepareSeqNo < MaxSeqNo
        /\ Step(n, serviceQueues(replicas[n]))

SvReceivePrePrepare ==
    \E n \in DOMAIN replicas :
        /\ hasPrimary(replicas[n])
        /\ Receive3PC(n, {PrePrepareFor(replicas[n], replicas[n].viewNo, s, 1, ReqOf(s)) : s \in VSeqNos},
                      {replicas[n].primaryName} \ {n})

SvStartViewChange == \E n \in DOMAIN replicas : StartViewChange(n)

SvNodeStartsCatchup == \E n \in DOMAIN replicas : NodeStartsCatchup(n)

SvAllLedgersCaughtUp ==
    \E n \in DOMAIN replicas : \E key \in VCaughtUpKeys(n) : AllLedgersCaughtUp(n, key)

SvSelectPrimaries == \E n \in DOMAIN replicas : SelectPrimaries(n)

ServiceNext ==
    \/ SvServiceQueues
    \/ SvReceivePrePrepare
    \/ SvStartViewChange
    \/ SvNodeStartsCatchup
    \/ SvAllLedgersCaughtUp
    \/ SvSelectPrimaries

ServiceSpec == ViewInit /\ [][ServiceNext]_vars

(* ------------------- a pool of correct nodes --------------------------- *)

\* the nodes that stay connected: N - f of them, the master primary among them
Connected == {"N1", "N2", "N3"}

\* the requests the clients send
EReqs == {"r1"}

LiveInit ==
    /\ replicas = [n \in Connected |-> primaryChanged(InitReplica(n, TRUE), PrimaryOf(0, 0))]
    /\ net = {}
    /\ sent = << >>

\* a request becomes finalised on a node
EFinalise == \E n \in DOMAIN replicas : Finalise(n, EReqs)

ESend3PCBatch ==
    \E n \in DOMAIN replicas :
        /\ isPrimary(replicas[n]) = "True"
        /\ isParticipating(replicas[n])
        /\ replicas[n].requestQueue # << >>
        /\ PoolStep(n, send3PCBatch(replicas[n]), {})

EDequeuePrePrepares ==
    \E n \in DOMAIN replicas :
        /\ isParticipating(replicas[n])
        /\ PoolStep(n, dequeue_pre_prepares(replicas[n]), {})

EDeliver == \E n \in DOMAIN replicas : Deliver(n)

LiveNext ==
    \/ EFinalise
    \/ ESend3PCBatch
    \/ EDequeuePrePrepares
    \/ EDeliver

\* the looper runs every node's serviceQueues again and again, and the
\* transport delivers every message between connected nodes
LiveSpec ==
    /\ LiveInit /\ [][LiveNext]_vars
    /\ WF_vars(EFinalise) /\ WF_vars(ESend3PCBatch)
    /\ WF_vars(EDequeuePrePrepares) /\ WF_vars(EDeliver)

(* ------------------------ properties ----------------------------------- *)

\* the 3PC keys a replica holds in its logs
LogKeys(r) ==
    DOMAIN r.sentPrePrepares \cup DOMAIN r.prePrepares \cup DOMAIN r.prepares
        \cup DOMAIN r.commits \cup DOMAIN r.batches

\* the 3PC keys a replica holds in its stashes and request records
StashKeys(r) ==
    DOMAIN r.preparesWaitingForPrePrepare \cup DOMAIN r.commitsWaitingForPrepare
        \cup SeqToSet(r.stashed_out_of_order_commits)
        \cup DOMAIN r.prePreparesPendingPrevPP
        \cup {MsgKey(r.prePreparesPendingFinReqs[i][1]) : i \in DOMAIN r.prePreparesPendingFinReqs}
        \cup DOMAIN r.requested_pre_prepares \cup DOMAIN r.requested_prepares
        \cup DOMAIN r.requested_commits

\* what the replica has ordered, one entry per Ordered message, oldest first
OrderedLog(n) == replicas[n].orderedLog

AtMostOneAcceptedPerKey ==
    \A n \in DOMAIN replicas : \A p, q \in replicas[n].acceptedPrePrepares :
        MsgKey(p) = MsgKey(q) => p = q

\* C6: a replica never hands a 3PC message whose ppSeqNo is outside (h, H]
\* to the handler of its type
DispatchWithinWatermarks ==
    \A n \in DOMAIN replicas : replicas[n].handledOutsideWatermarks = {}

\* the ends E of the checkpoints the replica has marked stable
StableEnds(r) == {k[2] : k \in {c \in DOMAIN r.checkpoints : r.checkpoints[c].isStable}}

\* the stashed 3PC messages that the watermarks of the replica admit or have passed
StashedWithin(r) ==
    {i \in DOMAIN r.stashingWhileOutsideWaterMarks :
        r.stashingWhileOutsideWaterMarks[i][1].ppSeqNo <= r.H}

HighFollowsLow ==
    \A n \in DOMAIN replicas : replicas[n].H = replicas[n].h + LOG_SIZE

\* C8 amended: H = h + LOG_SIZE on a master replica; on a backup replica either
\* that or, after a catch-up or a primary propagation on a non-primary, h = 0
\* with H = sys.maxsize
HighFollowsLowOrUnbounded ==
    \A n \in DOMAIN replicas :
        \/ replicas[n].H = replicas[n].h + LOG_SIZE
        \/ ~replicas[n].isMaster /\ replicas[n].h = 0 /\ replicas[n].H = SysMaxSize

\* a master replica has moved its watermarks
MasterMovedWatermarks ==
    \E n \in DOMAIN replicas : replicas[n].isMaster /\ replicas[n].h > 0

\* the ppSeqNos of the PRE-PREPAREs among the first i - 1 of s that node n sent under view v
SentBefore(s, i, n, v) ==
    {s[j][2].ppSeqNo : j \in {k \in 1..(i - 1) : s[k][1] = n /\ s[k][2].viewNo = v}}

\* C9: the PRE-PREPAREs a primary sends under a view are numbered 1, 2, 3, ... in
\* the order of sending, and a step of a primary that sends none keeps lastPrePrepareSeqNo
PrimarySendsConsecutive ==
    [][/\ \A i \in DOMAIN sent' :
             sent'[i][2].ppSeqNo = 1 + Cardinality(SentBefore(sent', i, sent'[i][1], sent'[i][2].viewNo))
       /\ \A n \in DOMAIN replicas :
             (/\ isPrimary(replicas[n]) = "True" /\ isPrimary(replicas'[n]) = "True"
              /\ replicas'[n].viewNo = replicas[n].viewNo
              /\ sent' = sent)
                 => replicas'[n].lastPrePrepareSeqNo = replicas[n].lastPrePrepareSeqNo]_vars

\* a primary has sent the second PRE-PREPARE of a view after a view change
SentSecondInNewView ==
    \E i \in DOMAIN sent : sent[i][2].viewNo > 0 /\ sent[i][2].ppSeqNo = 2

\* C10: once a checkpoint ending at E is stable, the replica holds no 3PC key
\* with ppSeqNo <= E in its logs or in its stashes
NoStateUpToStableCheckpoint ==
    \A n \in DOMAIN replicas : \A E \in StableEnds(replicas[n]) :
        \A k \in LogKeys(replicas[n]) \cup StashKeys(replicas[n]) : k[2] > E

\* C1: two correct nodes that order the same 3PC key order PRE-PREPAREs with the
\* same batch digest, state root and txn root
Agreement ==
    \A n1, n2 \in DOMAIN replicas :
        \A i \in DOMAIN OrderedLog(n1) : \A j \in DOMAIN OrderedLog(n2) :
            (/\ OrderedLog(n1)[i].viewNo = OrderedLog(n2)[j].viewNo
             /\ OrderedLog(n1)[i].ppSeqNo = OrderedLog(n2)[j].ppSeqNo)
                => /\ OrderedLog(n1)[i].digest = OrderedLog(n2)[j].digest
                   /\ OrderedLog(n1)[i].stateRootHash = OrderedLog(n2)[j].stateRootHash
                   /\ OrderedLog(n1)[i].txnRootHash = OrderedLog(n2)[j].txnRootHash

\* C2: no two Ordered messages of correct nodes carry the same ppSeqNo, in
\* whatever views, with different batch digests
NoForksAcrossViews ==
    \A n1, n2 \in DOMAIN replicas :
        \A i \in DOMAIN OrderedLog(n1) : \A j \in DOMAIN OrderedLog(n2) :
            OrderedLog(n1)[i].ppSeqNo = OrderedLog(n2)[j].ppSeqNo
                => OrderedLog(n1)[i].digest = OrderedLog(n2)[j].digest

\* C2 amended: a master replica orders its 3PC keys in increasing order of
\* (view, ppSeqNo), so it orders at most one batch under a key (v, s)
OrdersEachKeyOnce ==
    \A n \in DOMAIN replicas : \A i, j \in DOMAIN OrderedLog(n) :
        (replicas[n].isMaster /\ i < j) =>
            compare_3PC_keys(<<OrderedLog(n)[i].viewNo, OrderedLog(n)[i].ppSeqNo>>,
                             <<OrderedLog(n)[j].viewNo, OrderedLog(n)[j].ppSeqNo>>) > 0

\* a master replica has ordered ppSeqNo 1 in two views
OrderedFirstInTwoViews ==
    \E n \in DOMAIN replicas : \E i, j \in DOMAIN OrderedLog(n) :
        /\ replicas[n].isMaster
        /\ OrderedLog(n)[i].viewNo < OrderedLog(n)[j].viewNo
        /\ OrderedLog(n)[i].ppSeqNo = OrderedLog(n)[j].ppSeqNo

\* the node has ordered a batch of the request
RequestOrdered(n, req) ==
    \E i \in DOMAIN OrderedLog(n) : OrderedLog(n)[i].digest = batchDigest(<<req>>)

\* the request has gone out in a PRE-PREPARE
RequestSent(req) == \E i \in DOMAIN sent : req \in SeqToSet(sent[i][2].reqIdr)

\* the 3PC keys under which the master primary batches the requests
LiveKeys == {<<0, s>> : s \in 1..Cardinality(EReqs)}

\* the work a node has left: requests to finalise, batches to send, votes to
\* cast and stashed PRE-PREPAREs to take up again
Work(n) ==
    LET r == replicas[n]
    IN  6 * Cardinality({q \in EReqs : q \notin r.requests /\ q \notin SeqToSet(r.applied)})
        + 5 * (IF isPrimary(r) = "True" THEN Len(r.requestQueue) ELSE 0)
        + 5 * Cardinality({k \in LiveKeys : isPrimary(r) # "True" /\ ~hasVoteFrom(r.prepares, k, n)})
        + 5 * Cardinality({k \in LiveKeys : ~hasVoteFrom(r.commits, k, n)})
        + Len(r.prePreparesPendingFinReqs) + Cardinality(DOMAIN r.prePreparesPendingPrevPP)

RECURSIVE WorkOf(_)
WorkOf(S) == IF S = {} THEN 0 ELSE LET n == CHOOSE x \in S : TRUE IN Work(n) + WorkOf(S \ {n})

\* the work the pool has left, the messages on their way included
WorkLeft == WorkOf(DOMAIN replicas) + 2 * Cardinality(net)

\* some step of LiveNext can be taken: a message can be delivered, a request
\* finalised, a batch sent or a stashed PRE-PREPARE taken up
StepLeft ==
    \/ \E e \in net : /\ replicas[e[1]].raised = NoName
                       /\ msgHasAcceptableViewNo(replicas[e[1]], e[3].viewNo)
    \/ \E n \in DOMAIN replicas : \E q \in EReqs :
           /\ replicas[n].raised = NoName
           /\ q \notin replicas[n].requests /\ q \notin SeqToSet(replicas[n].applied)
           /\ Bounded(readyFor3PC(replicas[n], q))
    \/ \E n \in DOMAIN replicas :
           /\ replicas[n].raised = NoName
           /\ isPrimary(replicas[n]) = "True" /\ isParticipating(replicas[n])
           /\ replicas[n].requestQueue # << >>
    \/ \E n \in DOMAIN replicas :
           /\ replicas[n].raised = NoName
           /\ isParticipating(replicas[n])
           /\ Served(replicas[n], dequeue_pre_prepares(replicas[n])) # replicas[n]

SecondPrePrepares(r) ==
    {pp \in {PrePrepareFor(r, r.viewNo, s, 1, req) : s \in VSeqNos, req \in Reqs} :
        /\ MsgKey(pp) \in DOMAIN r.prePrepares
        /\ r.prePrepares[MsgKey(pp)].digest # pp.digest}

\* C11: a backup that receives a second PRE-PREPARE for a key, with another
\* digest, keeps the first and the PREPARE it sent, reports DUPLICATE_PPR_SENT
\* against the primary and sends an INSTANCE_CHANGE for the next view
DuplicatePrePrepareEscalates ==
    \A n \in DOMAIN replicas :
        (replicas[n].raised = NoName /\ isPrimary(replicas[n]) = "False") =>
            \A pp \in SecondPrePrepares(replicas[n]) :
                LET new == processPrePrepare(replicas[n], pp, replicas[n].primaryName)
                IN  /\ new.prePrepares = replicas[n].prePrepares
                    /\ new.prepares = replicas[n].prepares
                    /\ \E i \in DOMAIN new.outBox :
                           new.outBox[i] = Suspicion("DUPLICATE_PPR_SENT", pp, replicas[n].primaryName)
                    /\ \E i \in DOMAIN new.instanceChangesSent :
                           /\ i > Len(replicas[n].instanceChangesSent)
                           /\ new.instanceChangesSent[i].viewNo = replicas[n].viewNo + 1

(* ------------------- missing PRE-PREPAREs ------------------------------ *)

\* the MESSAGE_REQs for PRE-PREPAREs a handler left in the outBox, one entry per request sent
PrePrepareRequests(new) ==
    LET IsReq(m) == m.type = "MESSAGE_REQUEST" /\ m.msg_type = PREPREPARE
        reqs == SelectSeq(new.outBox, IsReq)
    IN  [i \in DOMAIN reqs |-> reqs[i].key]

\* the keys between the last PRE-PREPARE / last ordered key of the replica and pp
GapKeys(r, pp) ==
    LET last == last_pp_3pc(r)
    IN  {<<pp.viewNo, s>> : s \in ((IF pp.viewNo = last[1] THEN last[2] + 1 ELSE 1)..(pp.ppSeqNo - 1))}

\* the distance from the last PRE-PREPARE / last ordered key of the replica to pp
GapWidth(r, pp) == Cardinality(GapKeys(r, pp)) + 1

\* a PRE-PREPARE of the primary that the replica finds not to be the next one
NotNext(r, pp) ==
    /\ r.raised = NoName
    /\ hasPrimary(r)
    /\ can_process_pre_prepare(r, pp, r.primaryName) = "PP_CHECK_NOT_NEXT"

\* what the replica does with a PRE-PREPARE that is not the next one, when
\* replicas of the kind `asks` are those that request the gap
StashesAndRequests(r, pp, asks) ==
    LET new == processPrePrepare(r, pp, r.primaryName)
        sentReqs == PrePrepareRequests(new)
        want == IF asks /\ GapWidth(r, pp) <= CHK_FREQ
                THEN GapKeys(r, pp) \ DOMAIN r.requested_pre_prepares
                ELSE {}
    IN  /\ MsgKey(pp) \in DOMAIN new.prePreparesPendingPrevPP
        /\ new.prePreparesPendingPrevPP[MsgKey(pp)] = <<pp, r.primaryName>>
        /\ SeqToSet(sentReqs) = want
        /\ Len(sentReqs) = Cardinality(want)
        /\ asks /\ GapWidth(r, pp) <= CHK_FREQ => GapKeys(r, pp) \subseteq DOMAIN new.requested_pre_prepares

\* C12 as stated: every non-primary replica stashes a PRE-PREPARE that is not
\* the next one and requests each missing PRE-PREPARE of a gap no wider than
\* CHK_FREQ once; for a wider gap it requests nothing
RequestsEveryNarrowGap ==
    \A n \in DOMAIN replicas : \A pp \in GPrePrepares(replicas[n]) :
        NotNext(replicas[n], pp) => StashesAndRequests(replicas[n], pp, TRUE)

\* C12 amended: the gap is requested by the master replica and by a backup
\* replica that has ordered a batch; a backup replica that has ordered nothing
\* only stashes, whatever the width of the gap
RequestsNarrowGapOnceOrdering ==
    \A n \in DOMAIN replicas : \A pp \in GPrePrepares(replicas[n]) :
        NotNext(replicas[n], pp) =>
            StashesAndRequests(replicas[n], pp,
                               replicas[n].isMaster \/ replicas[n].last_ordered_3pc[2] # 0)

\* a backup replica that ordered a batch holds a stashed PRE-PREPARE and has
\* requested the one before it
BackupRequestedGap ==
    \E n \in DOMAIN replicas : \E k \in DOMAIN replicas[n].prePreparesPendingPrevPP :
        /\ ~replicas[n].isMaster
        /\ replicas[n].last_ordered_3pc[2] # 0
        /\ <<k[1], k[2] - 1>> \in DOMAIN replicas[n].requested_pre_prepares

(* ------------------- PRE-PREPAREs with an incorrect time --------------- *)

\* how many of the PREPAREs waiting for the PRE-PREPARE of key carry one common ppTime
CommonTimePrepares(r, key) ==
    IF key \notin DOMAIN r.preparesWaitingForPrePrepare THEN 0
    ELSE LET q == r.preparesWaitingForPrePrepare[key]
             Count(t) == Cardinality({i \in DOMAIN q : q[i][1].ppTime = t})
         IN  CHOOSE c \in 0..Len(q) : (\A t \in Clock : Count(t) <= c) /\ (c > 0 => \E t \in Clock : Count(t) = c)

\* C13: a PRE-PREPARE stays stashed for incorrect time only while fewer than
\* f+1 PREPAREs of its key with one common ppTime have arrived
UnstashedOnceEnoughPrepares ==
    \A n \in DOMAIN replicas :
        \A key \in DOMAIN replicas[n].pre_prepares_stashed_for_incorrect_time :
            /\ ~hasPrePrepare(replicas[n], key)
            /\ ~replicas[n].pre_prepares_stashed_for_incorrect_time[key][3]
            => CommonTimePrepares(replicas[n], key) < f + 1

(* ------------------- time monotonicity --------------------------------- *)

\* the PRE-PREPAREs a replica accepts in a step
AcceptedNow(n) ==
    {replicas'[n].prePrepares[k] : k \in DOMAIN replicas'[n].prePrepares \ DOMAIN replicas[n].prePrepares}

\* the PRE-PREPAREs a primary creates in a step
CreatedNow(n) ==
    {replicas'[n].sentPrePrepares[k] :
        k \in DOMAIN replicas'[n].sentPrePrepares \ DOMAIN replicas[n].sentPrePrepares}

\* last_accepted_pre_prepare_time does not go back in a step
TimeKept(n) ==
    replicas[n].last_accepted_pre_prepare_time # NoTime =>
        /\ replicas'[n].last_accepted_pre_prepare_time # NoTime
        /\ replicas'[n].last_accepted_pre_prepare_time >= replicas[n].last_accepted_pre_prepare_time

\* a primary stamps a batch with the later of its clock and the last accepted time
PrimaryStamps(n) ==
    \A pp \in CreatedNow(n) :
        /\ pp.ppTime >= replicas[n].utc_epoch
        /\ replicas[n].last_accepted_pre_prepare_time # NoTime =>
               pp.ppTime >= replicas[n].last_accepted_pre_prepare_time
        /\ pp.ppTime \in {replicas[n].utc_epoch, replicas[n].last_accepted_pre_prepare_time}

\* a PRE-PREPARE accepted on the strength of the peers: the replica had
\* requested it, or f+1 PREPAREs with one ppTime vouched for it
VouchedFor(n, pp) ==
    \/ MsgKey(pp) \in DOMAIN replicas[n].requested_pre_prepares
    \/ /\ MsgKey(pp) \in DOMAIN replicas'[n].pre_prepares_stashed_for_incorrect_time
       /\ replicas'[n].pre_prepares_stashed_for_incorrect_time[MsgKey(pp)][3]

\* C14 as stated: a replica accepts a PRE-PREPARE only with a ppTime not before
\* the last accepted one and within the deviation of its clock, a primary
\* stamps max(clock, last accepted time), and last_accepted_pre_prepare_time
\* never decreases
TimeMonotonicity ==
    [][\A n \in DOMAIN replicas :
          /\ \A pp \in AcceptedNow(n) : is_pre_prepare_time_correct(replicas[n], pp)
          /\ PrimaryStamps(n)
          /\ TimeKept(n)]_vars

\* C14 amended: the same, but for the PRE-PREPAREs the replica had requested
\* or f+1 PREPAREs vouched for; these are accepted whatever their ppTime, and
\* last_accepted_pre_prepare_time follows them
TimeMonotonicityUnlessVouched ==
    [][\A n \in DOMAIN replicas :
          /\ \A pp \in AcceptedNow(n) : is_pre_prepare_time_correct(replicas[n], pp) \/ VouchedFor(n, pp)
          /\ PrimaryStamps(n)
          /\ (\A pp \in AcceptedNow(n) : is_pre_prepare_time_correct(replicas[n], pp)) => TimeKept(n)]_vars

\* a primary whose clock went back has stamped its second batch with the time of the first
StampedAfterClockWentBack ==
    \E n \in DOMAIN replicas :
        /\ {<<0, 1>>, <<0, 2>>} \subseteq DOMAIN replicas[n].sentPrePrepares
        /\ replicas[n].sentPrePrepares[<<0, 2>>].ppTime > replicas[n].utc_epoch
        /\ replicas[n].sentPrePrepares[<<0, 2>>].ppTime = replicas[n].sentPrePrepares[<<0, 1>>].ppTime

(* ------------------- INSTANCE_CHANGE accumulation ---------------------- *)

\* the nodes whose INSTANCE_CHANGE for a view the node has recorded
VotesFor(r, v) == IF v \in DOMAIN r.instanceChanges THEN r.instanceChanges[v] ELSE {}

\* C15: a step whose votes for a proposed view above the current one reach
\* the view change quorum, the node's own vote counted, starts the view change
\* to that view; any other step of the accumulation leaves view_no alone and
\* does not set view_change_in_progress; no quorum for a higher view is left waiting
StartsOnInstanceChangeQuorum ==
    /\ [][\A n \in DOMAIN replicas :
             /\ replicas'[n].viewNo # replicas[n].viewNo =>
                    /\ replicas'[n].viewNo > replicas[n].viewNo
                    /\ Cardinality(VotesFor(replicas'[n], replicas'[n].viewNo)) >= 2 * f + 1
                    /\ Cardinality(VotesFor(replicas[n], replicas'[n].viewNo)) < 2 * f + 1
                    /\ replicas'[n].view_change_in_progress
             /\ replicas'[n].viewNo = replicas[n].viewNo =>
                    /\ replicas'[n].view_change_in_progress => replicas[n].view_change_in_progress
                    /\ \A v \in ProposedViews :
                           v > replicas[n].viewNo => Cardinality(VotesFor(replicas'[n], v)) < 2 * f + 1]_vars
    /\ [](\A n \in DOMAIN replicas : \A v \in ProposedViews :
             v > replicas[n].viewNo => Cardinality(VotesFor(replicas[n], v)) < 2 * f + 1)

\* the node's own vote completed the quorum for the view it is changing to
OwnVoteInQuorum ==
    \E n \in DOMAIN replicas :
        /\ replicas[n].view_change_in_progress
        /\ replicas[n].viewNo > 0
        /\ n \in VotesFor(replicas[n], replicas[n].viewNo)
        /\ Cardinality(VotesFor(replicas[n], replicas[n].viewNo)) = 2 * f + 1

(* ------------------- VIEW_CHANGE_DONE quorum --------------------------- *)

\* the senders whose VIEW_CHANGE_DONE held by the node carries the pair
Backers(r, pair) == {x \in DOMAIN r.view_change_done : r.view_change_done[x] = pair}

\* the node completes a real view change in this step
DeclaresNewView(n) ==
    /\ replicas[n].view_change_in_progress
    /\ ~replicas[n].propagate_primary
    /\ ~replicas'[n].view_change_in_progress

\* C16: a node that declares the new view of a real view change holds
\* VIEW_CHANGE_DONE from 2f+1 senders with one <<new primary, ledger summary>>,
\* one VIEW_CHANGE_DONE from the expected primary, and the new primary of the
\* pair is the expected primary, which it selects
DeclaresOnViewChangeDoneQuorum ==
    [][\A n \in DOMAIN replicas :
          DeclaresNewView(n) =>
              LET expected == PrimaryOf(replicas'[n].viewNo, 0)
              IN  /\ \E size \in LedgerSizes :
                         Cardinality(Backers(replicas'[n], <<expected, size>>)) >= 2 * f + 1
                  /\ expected \in DOMAIN replicas'[n].view_change_done
                  /\ replicas'[n].primaryName = expected]_vars

\* C16 amended: the node accepts a <<new primary, ledger summary>> in a step
\* after which it holds VIEW_CHANGE_DONE from 2f+1 senders with that pair, and
\* notes the VIEW_CHANGE_DONE of the expected primary when it holds one; both
\* findings are kept until the next view change starts, whatever the senders
\* send afterwards. It declares the new view only with both findings made, the
\* accepted new primary being the expected one and its own ledger not behind
\* the accepted summary
DeclaresOnAcceptedViewChangeDone ==
    [][\A n \in DOMAIN replicas :
          LET old == replicas[n]
              new == replicas'[n]
              expected == PrimaryOf(new.viewNo, 0)
          IN  /\ (/\ old.view_change_in_progress /\ ~old.propagate_primary
                   /\ new.viewNo = old.viewNo
                   /\ old.accepted_view_change_done_message = << >>
                   /\ new.accepted_view_change_done_message # << >>)
                  => Cardinality(Backers(new, new.accepted_view_change_done_message)) >= 2 * f + 1
              /\ (new.viewNo = old.viewNo /\ ~old.has_view_change_from_primary
                                          /\ new.has_view_change_from_primary)
                  => expected \in DOMAIN new.view_change_done
              /\ DeclaresNewView(n) =>
                     /\ new.accepted_view_change_done_message # << >>
                     /\ new.accepted_view_change_done_message[1] = expected
                     /\ new.has_view_change_from_primary
                     /\ ledger_summary(new) >= new.accepted_view_change_done_message[2]
                     /\ new.primaryName = expected]_vars

\* the node has declared view 1 after a real view change, holding the quorum it accepted
NewViewDeclared ==
    \E n \in DOMAIN replicas :
        /\ replicas[n].viewNo = 1
        /\ ~replicas[n].view_change_in_progress
        /\ replicas[n].primaryName = PrimaryOf(1, 0)
        /\ replicas[n].primary_verified
        /\ Cardinality(Backers(replicas[n], replicas[n].accepted_view_change_done_message)) >= 2 * f + 1

(* ------------------- view change timeout ------------------------------- *)

\* the INSTANCE_CHANGEs a handler sent
SentBy(r, new) ==
    {new.instanceChangesSent[i] : i \in (Len(r.instanceChangesSent) + 1)..Len(new.instanceChangesSent)}

TimeoutVote(r) == [type |-> INSTANCE_CHANGE, viewNo |-> r.viewNo + 1, reason |-> "INSTANCE_CHANGE_TIMEOUT"]

\* C17 as stated: the check that runs at the view change timeout sends an
\* INSTANCE_CHANGE for the view after the one being changed to if the view
\* change is still in progress, and nothing if it has completed
TimeoutVotesForNextView ==
    \A n \in DOMAIN replicas :
        replicas[n].raised = NoName =>
            LET new == check_view_change_completed(replicas[n])
            IN  IF replicas[n].view_change_in_progress
                THEN SentBy(replicas[n], new) = {TimeoutVote(replicas[n])}
                ELSE SentBy(replicas[n], new) = {}

\* C17 amended: the INSTANCE_CHANGE is sent unless the throttler refuses it,
\* the node having sent another INSTANCE_CHANGE since the view change started
\* and within the throttler's delay; the check is scheduled only while a view
\* change is in progress
TimeoutVotesUnlessThrottled ==
    \A n \in DOMAIN replicas :
        replicas[n].raised = NoName =>
            LET new == check_view_change_completed(replicas[n])
            IN  /\ IF replicas[n].view_change_in_progress /\ ~replicas[n].insChngThrottled
                   THEN SentBy(replicas[n], new) = {TimeoutVote(replicas[n])}
                   ELSE SentBy(replicas[n], new) = {}
                /\ "check_view_change_completed" \in replicas[n].scheduled
                       => replicas[n].view_change_in_progress

\* the check ran during the change to view 1 and the node voted for view 2
VotedAtTimeout ==
    \E n \in DOMAIN replicas :
        /\ replicas[n].viewNo = 1
        /\ replicas[n].view_change_in_progress
        /\ "check_view_change_completed" \notin replicas[n].scheduled
        /\ replicas[n].instanceChangesSent # << >>
        /\ replicas[n].instanceChangesSent[Len(replicas[n].instanceChangesSent)]
               = [type |-> INSTANCE_CHANGE, viewNo |-> 2, reason |-> "INSTANCE_CHANGE_TIMEOUT"]

(* ------------------- last prepared before a view change ---------------- *)

\* C18: last_prepared_before_view_change of the master replica is None whenever
\* no view change is in progress on the node; it is set only when a view change
\* starts, to the highest 3PC key with a PREPARE quorum at that moment
LastPreparedOnlyInViewChange ==
    /\ [](\A n \in DOMAIN replicas :
             replicas[n].last_prepared_before_view_change # None3PC
                 => replicas[n].isMaster /\ replicas[n].view_change_in_progress)
    /\ [][\A n \in DOMAIN replicas :
             /\ replicas'[n].last_prepared_before_view_change # replicas[n].last_prepared_before_view_change
             /\ replicas'[n].last_prepared_before_view_change # None3PC
             => /\ replicas'[n].viewNo > replicas[n].viewNo
                /\ replicas'[n].last_prepared_before_view_change
                       = last_prepared_certificate_in_view(replicas[n])]_vars

\* the master completed the change to view 1, which it entered with the batch
\* (0, 1) prepared
DoneAfterPrepared ==
    \E n \in DOMAIN replicas :
        /\ replicas[n].isMaster
        /\ replicas[n].viewNo = 1
        /\ ~replicas[n].view_change_in_progress
        /\ hasPrimary(replicas[n])
        /\ replicas[n].last_prepared_before_view_change = None3PC
        /\ <<0, 1>> \in DOMAIN replicas[n].prepares
        /\ hasQuorum(replicas[n].prepares, <<0, 1>>, Quorums.prepare)

(* ------------------- loss of the master primary ------------------------ *)

\* the master primary, or the one of the view the node is leaving
LastMasterPrimary(r) ==
    IF hasPrimary(r) THEN master_primary_name(r) ELSE r.previous_master_primary

PrimaryLossVote(r) == [type |-> INSTANCE_CHANGE, viewNo |-> r.viewNo + 1, reason |-> "PRIMARY_DISCONNECTED"]

\* C19, its last part as stated: when the timer set at the loss of the master
\* primary fires and that node is connected again, no INSTANCE_CHANGE is sent
SilentOncePrimaryReconnected ==
    \A n \in DOMAIN replicas :
        /\ replicas[n].raised = NoName
        /\ "propose_view_change" \in replicas[n].scheduled
        /\ LastMasterPrimary(replicas[n]) \in replicas[n].conns
        => SentBy(replicas[n], propose_view_change(replicas[n])) = {}

\* the loss of the master primary sets the timer, and a ready node whose
\* throttler has no vote to wait for proposes the next view when it fires
\* with lost_primary_at set
ProposesAfterPrimaryLoss ==
    \A n \in DOMAIN replicas :
        replicas[n].raised = NoName =>
            /\ \A p \in replicas[n].conns :
                   p = master_primary_name(replicas[n])
                       => LET new == onConnsChanged(replicas[n], {}, {p})
                          IN  "propose_view_change" \in new.scheduled /\ new.lost_primary_at
            /\ LET new == propose_view_change(replicas[n])
               IN  IF /\ replicas[n].lost_primary_at
                      /\ isReady(replicas[n])
                      /\ ~replicas[n].insChngThrottled
                   THEN SentBy(replicas[n], new) = {PrimaryLossVote(replicas[n])}
                   ELSE SentBy(replicas[n], new) = {}

(* ------------------- back to quorum without the primary ---------------- *)

\* C20: a node that is connected to fewer nodes than minimumNodes sends no
\* INSTANCE_CHANGE when the timer set at the loss of the primary fires; when
\* a node joins and the count is back at minimumNodes with the master primary
\* still away, the timer is set again, and the connected nodes eventually
\* are in the next view
ProposesOnceBackToQuorum ==
    /\ [](\A n \in DOMAIN replicas :
             connectedNodeCount(replicas[n]) < minimumNodes
                 => SentBy(replicas[n], propose_view_change(replicas[n])) = {})
    /\ [](\A n \in DOMAIN replicas : \A p \in Nodes \ ({n} \cup replicas[n].conns) :
             /\ connectedNodeCount(replicas[n]) < minimumNodes
             /\ connectedNodeCount(replicas[n]) + 1 >= minimumNodes
             /\ hasPrimary(replicas[n])
             /\ master_primary_name(replicas[n]) \notin replicas[n].conns \cup {n, p}
             => "propose_view_change" \in onConnsChanged(replicas[n], {p}, {}).scheduled)
    /\ <>(\A n \in DOMAIN replicas : replicas[n].viewNo = 1)

\* the timer of one node has fired below the minimum and nothing was sent,
\* while another node is back at the minimum and has proposed view 1
FiredBelowMinimum ==
    \E n, m \in DOMAIN replicas :
        /\ connectedNodeCount(replicas[n]) < minimumNodes
        /\ replicas[n].lost_primary_at
        /\ "propose_view_change" \notin replicas[n].scheduled
        /\ replicas[n].instanceChangesSent = << >>
        /\ replicas[m].instanceChangesSent = <<PrimaryLossVote([viewNo |-> 0])>>

(* ------------------- the performance check ----------------------------- *)

\* C21: the performance check proposes the next view, with PRIMARY_DEGRADED,
\* only if the monitor reports the master degraded, the node is participating
\* and no view change is in progress on the node
DegradationVoteOnlyWhenParticipating ==
    \A n \in DOMAIN replicas : \A new_ordered, degraded \in BOOLEAN :
        replicas[n].raised = NoName =>
            LET new == checkPerformance(replicas[n], new_ordered, degraded)
            IN  /\ SentBy(replicas[n], new) \subseteq
                       {[type |-> INSTANCE_CHANGE, viewNo |-> replicas[n].viewNo + 1,
                         reason |-> "PRIMARY_DEGRADED"]}
                /\ new # replicas[n]
                       => /\ degraded
                          /\ isParticipating(replicas[n])
                          /\ ~replicas[n].view_change_in_progress

\* the node has proposed view 1 for degradation with no vote of a peer
VotedForDegradation ==
    \E n \in DOMAIN replicas :
        /\ replicas[n].instanceChangesSent =
               <<[type |-> INSTANCE_CHANGE, viewNo |-> 1, reason |-> "PRIMARY_DEGRADED"]>>
        /\ replicas[n].instanceChanges = Put(EmptyDict, 1, {n})
        /\ isParticipating(replicas[n])

(* ------------------------ C22 ------------------------------------------ *)

\* the node has committed a batch of the master instance in the step
Executes(n) == replicas'[n].committedSize > replicas[n].committedSize

Count(seq, x) == Cardinality({i \in DOMAIN seq : seq[i] = x})

\* the Replies a node has sent for one transaction are the same
SameReply ==
    \A n \in DOMAIN replicas : \A x, y \in replicas[n].toClient :
        x[1].type = REPLY /\ y[1].type = REPLY /\ x[1].txn = y[1].txn => x[1] = y[1]

\* a request that the ledger of the node holds is neither propagated nor
\* forwarded to the request queue in the step
NotProcessedAgain ==
    \A n \in DOMAIN replicas : \A req \in DOMAIN replicas[n].seqNoDB :
        /\ Count(replicas'[n].propagated, req) <= Count(replicas[n].propagated, req)
        /\ Count(replicas'[n].requestQueue, req) <= Count(replicas[n].requestQueue, req)

\* C23: a write request whose digest is committed gets the same Reply from
\* the ledger whenever it is delivered again, and is neither propagated again
\* nor added to a request queue
RedeliveryIsIdempotent == []SameReply /\ [][NotProcessedAgain]_vars

\* a REQUEST whose digest the ledger holds is answered with the Reply read
\* from the ledger and changes nothing else
RepliesFromLedger ==
    \A n \in DOMAIN replicas : \A req \in DOMAIN replicas[n].seqNoDB : \A frm \in Clients :
        processRequest(replicas[n], req, frm) =
            [replicas[n] EXCEPT !.toClient =
                @ \cup {<<getReplyFromLedger(replicas[n], replicas[n].seqNoDB[req]), frm>>}]

(* ------------------------ C24 ------------------------------------------ *)

FloorOfThird(r) == r.f = (r.totalNodes - 1) \div 3

\* C24 as stated: the COMMIT quorum is 2f+1 and the PREPARE quorum is 2f
\* whatever the size of the pool
QuorumsAreExact ==
    \A n \in DOMAIN replicas :
        LET r == replicas[n]
        IN  /\ FloorOfThird(r)
            /\ r.quorums.view_change >= 2 * r.f + 1
            /\ r.quorums.commit = 2 * r.f + 1
            /\ r.quorums.prepare = 2 * r.f
            /\ r.quorums.weak = r.f + 1

\* C24: the COMMIT quorum N-f is at least 2f+1 and the PREPARE quorum N-f-1
\* at least 2f, with equality exactly when N = 3f+1
QuorumsAreAtLeast ==
    \A n \in DOMAIN replicas :
        LET r == replicas[n]
        IN  /\ FloorOfThird(r)
            /\ r.quorums.view_change >= 2 * r.f + 1
            /\ r.quorums.commit = r.totalNodes - r.f
            /\ r.quorums.prepare = r.totalNodes - r.f - 1
            /\ r.quorums.commit >= 2 * r.f + 1
            /\ r.quorums.prepare >= 2 * r.f
            /\ (r.quorums.commit = 2 * r.f + 1 <=> r.totalNodes = 3 * r.f + 1)
            /\ (r.quorums.prepare = 2 * r.f <=> r.totalNodes = 3 * r.f + 1)
            /\ r.quorums.weak = r.f + 1

\* a pool of six nodes: one failure, a COMMIT quorum of five
PoolOfSix ==
    \E n \in DOMAIN replicas :
        /\ replicas[n].totalNodes = 6
        /\ replicas[n].f = 1
        /\ replicas[n].quorums.commit = 5
        /\ replicas[n].quorums.prepare = 4

(* ------------------------ C25 ------------------------------------------ *)

\* C25: a node whose primaries are selected runs f+1 instances, each instance
\* has a primary and the primaries of two instances are different nodes
DistinctPrimaries ==
    \A n \in DOMAIN replicas :
        LET node == replicas[n]
        IN  ~node.view_change_in_progress =>
                /\ Len(node.primaryNames) = node.params.f + 1
                /\ \A i \in DOMAIN node.primaryNames : node.primaryNames[i] \in 0..(node.params.totalNodes - 1)
                /\ \A i, j \in DOMAIN node.primaryNames :
                       i # j => node.primaryNames[i] # node.primaryNames[j]

\* a pool of seven nodes after a view change: three instances with primaries
ThreePrimariesAfterViewChange ==
    \E n \in DOMAIN replicas :
        /\ ~replicas[n].view_change_in_progress
        /\ replicas[n].viewNo > 0
        /\ replicas[n].params.totalNodes = 7
        /\ Len(replicas[n].primaryNames) = 3

(* ------------------------ C26 ------------------------------------------ *)

ViewChangeCompleted(r) == r.viewNo > 0 /\ ~r.view_change_in_progress /\ hasPrimary(r)

\* the node completes a view change in the step
Completes(n) == replicas[n].view_change_in_progress /\ ~replicas'[n].view_change_in_progress

\* the requests that the node has committed are in no request store or queue
\* of the replica once the step is taken
CommittedRequestsCleared(n) ==
    \A key \in DOMAIN replicas'[n].seqNoDB :
        key \notin replicas'[n].requests /\ key \notin SeqToSet(replicas'[n].requestQueue)

\* C26 as stated: once the view change has completed on the nodes, the
\* replicas of the backup instance have the same last_ordered_3pc, and the
\* committed requests are cleared at the completion
SameBackupLastOrdered ==
    /\ [](\A a, b \in DOMAIN replicas :
              ViewChangeCompleted(replicas[a]) /\ ViewChangeCompleted(replicas[b]) =>
                  replicas[a].last_ordered_3pc = replicas[b].last_ordered_3pc)
    /\ [][\A n \in DOMAIN replicas : Completes(n) => CommittedRequestsCleared(n)]_vars

\* C26: at the completion of a view change the last_ordered_3pc of a backup
\* replica is the later of its own and that of the master replica of its
\* node, and the committed requests are cleared
BackupLastOrderedNotBelowMaster ==
    [][\A n \in DOMAIN replicas :
          Completes(n) =>
              /\ replicas'[n].last_ordered_3pc =
                     max_3PC_key({replicas[n].last_ordered_3pc, MasterLastOrdered(replicas[n])})
              /\ CommittedRequestsCleared(n)]_vars

\* the view change has completed on both nodes, one of which had ordered the
\* batch of the backup instance and executed that of the master instance
CompletedOnBothNodes ==
    /\ \A n \in DOMAIN replicas : ViewChangeCompleted(replicas[n])
    /\ \E n \in DOMAIN replicas :
           /\ replicas[n].last_ordered_3pc = <<0, 1>>
           /\ "r1" \in DOMAIN replicas[n].seqNoDB

(* ------------------------ C27 ------------------------------------------ *)

\* the 3PC keys a replica is asked to order
OrderKeys == {<<0, 1>>, <<0, 2>>, <<1, 1>>}

\* the handler has raised what and has done nothing else
OnlyRaised(r, new, what) ==
    /\ new = [r EXCEPT !.raised = what]
    /\ Served(r, new) = new
    /\ Sends(new) = {}

\* C27: completing a view change while the replica has no primary raises a
\* LogicError, ordering a 3PC key whose PRE-PREPARE the replica does not hold
\* raises a ValueError; neither advances last_ordered_3pc or emits Ordered,
\* and the error is not caught
LogicErrorsAreFatal ==
    \A n \in DOMAIN replicas :
        LET r == replicas[n]
        IN  r.raised = NoName =>
                /\ ~hasPrimary(r) =>
                       OnlyRaised(r, on_view_change_complete(r, r.last_ordered_3pc), "LogicError")
                /\ \A key \in OrderKeys :
                       ~hasPrePrepare(r, key) =>
                           OnlyRaised(r, order_3pc_key(r, key), "ValueError")

\* a view change is in progress on a replica that has no primary yet and
\* that holds a COMMIT of a batch waiting for its PRE-PREPARE
NoPrimaryAndNoPrePrepare ==
    \E n \in DOMAIN replicas :
        LET r == replicas[n]
        IN  /\ r.raised = NoName
            /\ r.view_change_in_progress
            /\ ~hasPrimary(r)
            /\ on_view_change_complete(r, r.last_ordered_3pc).raised = "LogicError"
            /\ \E key \in OrderKeys :
                   /\ ~hasPrePrepare(r, key)
                   /\ key \in DOMAIN r.commitsWaitingForPrepare
                   /\ order_3pc_key(r, key).raised = "ValueError"

(* ------------------------ C28 ------------------------------------------ *)

\* the COMMITs that replica n sends in the step
NewCommits(n) == {sent'[i][2] : i \in {j \in Len(sent) + 1..Len(sent') : sent'[j][1] = n}}

\* the PREPAREs held under the key agree with the PRE-PREPARE held
PreparesAgree(r, key) ==
    LET pp == getPrePrepare(r, key)
        prepare == r.prepares[key].msg
    IN  /\ prepare.digest = pp.digest
        /\ prepare.stateRootHash = pp.stateRootHash
        /\ prepare.txnRootHash = pp.txnRootHash

IsPrefix(p, q) == Len(p) <= Len(q) /\ SubSeq(q, 1, Len(p)) = p

\* every vote held under votes2 is held under votes1, but for the keys in but
NoNewVotes(votes1, votes2, but) ==
    \A key \in DOMAIN votes2 \ but :
        key \in DOMAIN votes1 /\ votes2[key].voters \subseteq votes1[key].voters

\* every message waiting under waiting2 waits under waiting1, but for the keys in but
NoNewWaiting(waiting1, waiting2, but) ==
    \A key \in DOMAIN waiting2 \ but :
        key \in DOMAIN waiting1 /\ Len(waiting2[key]) <= Len(waiting1[key])

\* the keys that last_prepared_before_view_change covers
PreparedBeforeViewChange(r) ==
    IF r.last_prepared_before_view_change = None3PC THEN {}
    ELSE {key \in (0..MaxView) \X (0..MaxSeqNo) :
              compare_3PC_keys(key, r.last_prepared_before_view_change) >= 0}

\* the replica has no primary before and after the step
StaysWithoutPrimary(n) ==
    /\ isPrimary(replicas[n]) = "None"
    /\ isPrimary(replicas'[n]) = "None"
    /\ replicas'[n].viewNo = replicas[n].viewNo

\* the step sets the primary of the replica
PrimaryIsSet(n) == isPrimary(replicas[n]) = "None" /\ isPrimary(replicas'[n]) # "None"

\* a PRE-PREPARE pended before a COMMIT of its key has been processed before
\* that COMMIT: the COMMIT has not been left waiting for the PRE-PREPARE
PendedInOrder(r, new) ==
    \A i, j \in DOMAIN r.postElectionMsgs :
        LET first == r.postElectionMsgs[i]
            second == r.postElectionMsgs[j]
            key == MsgKey(second[1])
        IN  (/\ i < j
             /\ first[1].type = PREPREPARE
             /\ second[1].type = COMMIT
             /\ MsgKey(first[1]) = key
             /\ key \in DOMAIN new.prePrepares)
            => hasVoteFrom(new.commits, key, second[2])

\* C29: while a replica has no primary a step processes nothing but COMMITs
\* of keys that last_prepared_before_view_change covers, and a message that
\* is pended goes to the end of postElectionMsgs and changes nothing else;
\* the step that sets the primary empties the queue in the order of arrival
PendedWithoutPrimary ==
    [][\A n \in DOMAIN replicas :
          LET r == replicas[n]
              new == replicas'[n]
          IN  /\ StaysWithoutPrimary(n) =>
                     /\ IsPrefix(r.postElectionMsgs, new.postElectionMsgs)
                     /\ Len(new.postElectionMsgs) <= Len(r.postElectionMsgs) + 1
                     /\ Len(new.postElectionMsgs) > Len(r.postElectionMsgs) =>
                            /\ new = [r EXCEPT !.postElectionMsgs = new.postElectionMsgs]
                            /\ LET msg == new.postElectionMsgs[Len(new.postElectionMsgs)][1]
                               IN  ~(msg.type = COMMIT /\ MsgKey(msg) \in PreparedBeforeViewChange(r))
                     /\ DOMAIN new.prePrepares \subseteq DOMAIN r.prePrepares
                     /\ NoNewVotes(r.prepares, new.prepares, {})
                     /\ NoNewVotes(r.commits, new.commits, PreparedBeforeViewChange(r))
                     /\ NoNewWaiting(r.preparesWaitingForPrePrepare, new.preparesWaitingForPrePrepare, {})
                     /\ NoNewWaiting(r.commitsWaitingForPrepare, new.commitsWaitingForPrepare,
                                     PreparedBeforeViewChange(r))
                     /\ Len(new.stashingWhileOutsideWaterMarks) <= Len(r.stashingWhileOutsideWaterMarks)
              /\ PrimaryIsSet(n) =>
                     /\ new.postElectionMsgs = << >>
                     /\ PendedInOrder(r, new)]_vars

\* a replica without a primary, which got the COMMITs of a batch prepared in
\* view 0 after the view change had started, has ordered the batch under its
\* key of view 0, and has pended a PRE-PREPARE and a COMMIT of view 1
OrderedUnderOldKeyAndPended ==
    \E n \in DOMAIN replicas :
        LET r == replicas[n]
        IN  /\ isPrimary(r) = "None"
            /\ r.viewNo = 1
            /\ r.last_prepared_before_view_change = <<0, 1>>
            /\ r.last_ordered_3pc = <<0, 1>>
            /\ Len(r.postElectionMsgs) = 2
            /\ r.postElectionMsgs[1][1].type = PREPREPARE
            /\ r.postElectionMsgs[2][1].type = COMMIT

(* ------------------------ C30 ------------------------------------------ *)

\* the view change to the view of the replica is done
ViewChangeDone(r) ==
    /\ r.viewNo > 0
    /\ ~r.view_change_in_progress
    /\ r.last_prepared_before_view_change = None3PC

OldViewKeys(r) == {key \in (0..MaxView) \X (1..MaxSeqNo) : key[1] < r.viewNo}

\* C30 as stated: once the view change is done no batch of an earlier view
\* is ordered
OldViewNeverOrderedOnceDone ==
    [][\A n \in DOMAIN replicas :
          ViewChangeDone(replicas[n]) =>
              \A key \in OldViewKeys(replicas[n]) :
                  key \in SeqToSet(replicas'[n].ordered) => key \in SeqToSet(replicas[n].ordered)]_vars

\* once the view change is done a step adds no PRE-PREPARE, PREPARE or
\* COMMIT of an earlier view to those the replica holds
OldViewDiscardedOnceDone ==
    [][\A n \in DOMAIN replicas :
          LET r == replicas[n]
              new == replicas'[n]
              others == ((0..MaxView) \X (0..MaxSeqNo)) \ OldViewKeys(r)
          IN  ViewChangeDone(r) =>
                  /\ DOMAIN new.prePrepares \cap OldViewKeys(r) \subseteq DOMAIN r.prePrepares
                  /\ NoNewVotes(r.prepares, new.prepares, others)
                  /\ NoNewVotes(r.commits, new.commits, others)]_vars

(* ------------------------ C31 ------------------------------------------ *)

IsPrepare(m) == m.type = PREPARE

\* C31: a master replica that finds a PRE-PREPARE of its primary not to apply
\* (number of valid requests, digest, state root or txn root) leaves the
\* uncommitted txns and the state head as they were before the apply, does
\* not hold the PRE-PREPARE, sends no PREPARE and raises the suspicion of the
\* check that failed
WrongPrePrepareReverted ==
    \A n \in DOMAIN replicas :
        LET r == replicas[n]
            pp == NextBatch(r)
        IN  (r.raised = NoName /\ r.isMaster /\ isParticipating(r)
               /\ can_process_pre_prepare(r, pp, r.primaryName) = "None") =>
                \A wrong \in WrongBatches(pp) :
                    LET new == processPrePrepare(r, wrong[1], r.primaryName)
                    IN  /\ new.applied = r.applied
                        /\ StateRoot(new.applied) = StateRoot(r.applied)
                        /\ new.prePrepares = r.prePrepares
                        /\ new.prepares = r.prepares
                        /\ new.lastPrePrepareSeqNo = r.lastPrePrepareSeqNo
                        /\ SelectSeq(new.outBox, IsPrepare) = << >>
                        /\ Suspicion(wrong[2], wrong[1], r.primaryName) \in SeqToSet(new.outBox)
                        /\ \A m \in SeqToSet(new.outBox) : m.type = "SUSPICION" => m.code = wrong[2]

\* the master replica has applied the first batch and has then refused a
\* second PRE-PREPARE for its state root
WrongStateRootRefused ==
    \E n \in DOMAIN replicas :
        LET r == replicas[n]
        IN  /\ r.isMaster
            /\ r.applied = <<"r1">>
            /\ DOMAIN r.prePrepares = {<<0, 1>>}
            /\ \E i \in DOMAIN r.instanceChangesSent : r.instanceChangesSent[i].reason = "PPR_STATE_WRONG"
            /\ r.instanceChangesSent[1].reason # "PPR_STATE_WRONG"

(* ------------------------ C32 ------------------------------------------ *)

\* the senders whose CHECKPOINT, as recorded, has the digest of the replica
MatchingSenders(state) == {sender \in DOMAIN state.receivedDigests : state.receivedDigests[sender] = state.digest}

\* C32 as stated: a stable checkpoint of a replica, master or backup, has a
\* checkpoint quorum of recorded senders whose digest is the replica's
StableByMatchingQuorum ==
    \A n \in DOMAIN replicas : \A key \in DOMAIN replicas[n].checkpoints :
        LET state == replicas[n].checkpoints[key]
        IN  state.isStable =>
                /\ state.digest # NoDigest
                /\ Cardinality(MatchingSenders(state)) >= Quorums.checkpoint

\* C32: a stable checkpoint of a replica has a checkpoint quorum of recorded
\* senders; on the master every recorded digest is the replica's own
StableByQuorumMatchingOnMaster ==
    \A n \in DOMAIN replicas : \A key \in DOMAIN replicas[n].checkpoints :
        LET state == replicas[n].checkpoints[key]
        IN  /\ state.isStable =>
                   /\ state.digest # NoDigest
                   /\ Cardinality(DOMAIN state.receivedDigests) >= Quorums.checkpoint
            /\ replicas[n].isMaster => MatchingSenders(state) = DOMAIN state.receivedDigests

\* the checkpoint of the first interval is stable on a master replica
MasterCheckpointStable ==
    \E n \in DOMAIN replicas :
        /\ replicas[n].isMaster
        /\ <<1, CHK_FREQ>> \in DOMAIN replicas[n].checkpoints
        /\ replicas[n].checkpoints[<<1, CHK_FREQ>>].isStable
        /\ replicas[n].h = CHK_FREQ

(* ------------------------ C33 ------------------------------------------ *)

IsOrderedAt(i) == i \in DOMAIN sent /\ sent[i][2].type = ORDERED

IsCheckpointAt(i) == i \in DOMAIN sent /\ sent[i][2].type = CHECKPOINT

\* the last CHECKPOINT or catch-up before an event, 0 when there is none
IntervalStart(i) ==
    LET before == {j \in 1..(i - 1) : sent[j][2].type # ORDERED}
    IN  IF before = {} THEN 0 ELSE SetMax(before)

OrderedSince(i) == Cardinality({j \in (IntervalStart(i) + 1)..(i - 1) : IsOrderedAt(j)})

\* C33 as stated: between a CHECKPOINT and the CHECKPOINT or the catch-up
\* before it the replica has ordered CHK_FREQ batches, and it sends a
\* CHECKPOINT with the batch that is the CHK_FREQ-th it orders since
CheckpointEveryChkFreqOrdered ==
    \A i \in DOMAIN sent :
        /\ IsCheckpointAt(i) => OrderedSince(i) = CHK_FREQ
        /\ IsOrderedAt(i) /\ OrderedSince(i) = CHK_FREQ - 1 => IsCheckpointAt(i + 1)

\* the batches ordered right before an event are those of the interval ending at e
OrdersIntervalBefore(i, e) ==
    \A j \in 1..CHK_FREQ : IsOrderedAt(i - j) /\ sent[i - j][2].ppSeqNo = e - j + 1

\* C33: a CHECKPOINT follows the ordering of the CHK_FREQ batches of an
\* interval that ends at a multiple of CHK_FREQ, with no catch-up between them,
\* and carries the hash of their digests; the replica sends one whenever it
\* has ordered such an interval
CheckpointOfWholeIntervals ==
    \A i \in DOMAIN sent :
        /\ IsCheckpointAt(i) =>
               LET ck == sent[i][2]
               IN  /\ ck.seqNoEnd % CHK_FREQ = 0
                   /\ ck.seqNoStart = ck.seqNoEnd - CHK_FREQ + 1
                   /\ OrdersIntervalBefore(i, ck.seqNoEnd)
                   /\ ck.digest = CheckpointDigest([j \in 1..CHK_FREQ |->
                                      batchDigest(sent[i - CHK_FREQ + j - 1][2].reqIdr)])
                   /\ OrderedSince(i) >= CHK_FREQ
        /\ \A e \in 1..MaxOrdered :
               e % CHK_FREQ = 0 /\ OrdersIntervalBefore(i + 1, e) => IsCheckpointAt(i + 1)

\* a catch-up ends inside an interval and the replica sends its next CHECKPOINT
\* after the batches of the rest of that interval and of a whole one
CheckpointAfterCatchupInsideInterval ==
    \E i \in DOMAIN sent :
        /\ IsCheckpointAt(i)
        /\ IntervalStart(i) > 0
        /\ sent[IntervalStart(i)][2].type = CAUGHT_UP
        /\ sent[IntervalStart(i)][2].ppSeqNo % CHK_FREQ # 0
        /\ OrderedSince(i) = CHK_FREQ + 1

(* ------------------------ C34 ------------------------------------------ *)

\* a checkpoint the replica has completed itself
CompletedItself(r, s, e) ==
    /\ <<s, e>> \in DOMAIN r.checkpoints
    /\ r.checkpoints[<<s, e>>].seqNo = e

\* the ends of the stashed CHECKPOINTs of the current view that have a quorum
\* of senders, for the checkpoints the replica has not completed itself
LagEnds(r) ==
    {k[3] : k \in {x \in DOMAIN r.stashedRecvdCheckpoints :
                      /\ x[1] = r.viewNo
                      /\ Cardinality(DOMAIN r.stashedRecvdCheckpoints[x]) >= Quorums.checkpoint
                      /\ ~CompletedItself(r, x[2], x[3])}}

\* the stashed CHECKPOINTs of one more checkpoint reach the quorum
LagGrows(n) == Cardinality(LagEnds(replicas'[n])) > Cardinality(LagEnds(replicas[n]))

\* h is raised and a master replica that is not the primary starts the catch-up
RaisesAndCatchesUp(n) ==
    /\ replicas'[n].h = SetMax(LagEnds(replicas'[n]))
    /\ IF replicas[n].isMaster /\ isPrimary(replicas[n]) # "True"
       THEN replicas'[n].mode = "starting" /\ replicas'[n].catchupStarted
       ELSE replicas'[n].mode = replicas[n].mode /\ replicas'[n].catchupStarted = replicas[n].catchupStarted

\* C34 as stated: with STASHED_CHECKPOINTS_BEFORE_CATCHUP or more such
\* checkpoints the replica raises h and, if master and not primary, catches up
CatchupAtThresholdStep ==
    \A n \in DOMAIN replicas :
        LagGrows(n) /\ Cardinality(LagEnds(replicas'[n])) >= STASHED_CHECKPOINTS_BEFORE_CATCHUP
            => RaisesAndCatchesUp(n)

CatchupAboveThresholdStep ==
    \A n \in DOMAIN replicas :
        LagGrows(n) =>
            IF Cardinality(LagEnds(replicas'[n])) > STASHED_CHECKPOINTS_BEFORE_CATCHUP
            THEN RaisesAndCatchesUp(n)
            ELSE /\ replicas'[n].h = replicas[n].h
                 /\ replicas'[n].mode = replicas[n].mode
                 /\ replicas'[n].catchupStarted = replicas[n].catchupStarted

OwnVotes(r) == {v \in DOMAIN r.instanceChanges : r.name \in r.instanceChanges[v]}

\* the views of the INSTANCE_CHANGEs the node has broadcast
ViewsSent(r) == {r.instanceChangesSent[i].viewNo : i \in DOMAIN r.instanceChangesSent}

\* C35 as stated: the node broadcasts at most one INSTANCE_CHANGE for a view
OneInstanceChangePerView ==
    \A n \in DOMAIN replicas :
        \A i, j \in DOMAIN replicas[n].instanceChangesSent :
            i # j => replicas[n].instanceChangesSent[i].viewNo # replicas[n].instanceChangesSent[j].viewNo

\* a step of the node sends an INSTANCE_CHANGE only when the throttler grants
\* it, at most one, and leaves the throttler refusing; the start of a view
\* change in the step sets the throttler up anew, before or after the
\* INSTANCE_CHANGE; a step that sends nothing adds no vote of the node
ThrottledStep ==
    \A n \in DOMAIN replicas :
        LET old == replicas[n]
            new == replicas'[n]
            added == Len(new.instanceChangesSent) - Len(old.instanceChangesSent)
        IN  /\ added \in {0, 1}
            /\ IsPrefix(old.instanceChangesSent, new.instanceChangesSent)
            /\ added = 1 => new.insChngThrottled \/ new.viewNo > old.viewNo
            /\ added = 1 /\ new.viewNo = old.viewNo => ~old.insChngThrottled
            /\ added = 0 => OwnVotes(new) \subseteq OwnVotes(old)
            /\ added = 1 =>
                   OwnVotes(new) \subseteq OwnVotes(old) \cup {new.instanceChangesSent[Len(new.instanceChangesSent)].viewNo}

\* C35: the node has a vote of its own only for a view it has broadcast an
\* INSTANCE_CHANGE for, a step broadcasts only when the throttler grants it
\* and adds the one vote of that view, and a refused call changes neither
VotesOnlyWithGrantedBroadcast ==
    /\ [](\A n \in DOMAIN replicas : OwnVotes(replicas[n]) \subseteq ViewsSent(replicas[n]))
    /\ [][ThrottledStep]_vars

\* the node has broadcast two INSTANCE_CHANGEs for the view it has voted for
VotedOnceSentTwice ==
    \E n \in DOMAIN replicas :
        /\ Len(replicas[n].instanceChangesSent) = 2
        /\ replicas[n].instanceChangesSent[1].viewNo = replicas[n].instanceChangesSent[2].viewNo
        /\ replicas[n].instanceChangesSent[1].viewNo \in OwnVotes(replicas[n])
        /\ replicas[n].insChngThrottled

(* ------------------------ C36 ------------------------------------------ *)

\* the node has accepted a VIEW_CHANGE_DONE quorum that names the expected
\* primary and its ledger is shorter than the accepted ledger summary
BehindAccepted(r) ==
    /\ r.accepted_view_change_done_message # << >>
    /\ r.primary_verified \/ r.propagated_view_change_completed
    /\ ledger_summary(r) < r.accepted_view_change_done_message[2]

BehindStep ==
    \A n \in DOMAIN replicas :
        LET old == replicas[n]
            new == replicas'[n]
        IN  /\ old.accepted_view_change_done_message = << >> /\ BehindAccepted(new) =>
                   /\ new.mode = "starting"
                   /\ new.view_change_in_progress = old.view_change_in_progress
                   /\ ~hasPrimary(new)
            /\ old.view_change_in_progress /\ ~new.view_change_in_progress =>
                   /\ new.accepted_view_change_done_message # << >>
                   /\ ledger_summary(new) >= new.accepted_view_change_done_message[2]
                   /\ hasPrimary(new)

\* C36: a node that is behind the ledger summary it accepts starts a catch-up
\* and neither selects primaries nor ends the view change; while it is behind
\* it is catching up, and it ends the view change only with no ledger behind
BehindStartsCatchupBeforeDone ==
    /\ [](\A n \in DOMAIN replicas :
              replicas[n].view_change_in_progress /\ BehindAccepted(replicas[n]) =>
                  replicas[n].mode = "starting" /\ ~hasPrimary(replicas[n]))
    /\ [][BehindStep]_vars

\* the node is catching up again because it is behind the summary it accepted
CatchingUpBehindAccepted ==
    \E n \in DOMAIN replicas :
        /\ replicas[n].view_change_in_progress
        /\ ~replicas[n].propagate_primary
        /\ BehindAccepted(replicas[n])
        /\ replicas[n].mode = "starting"

(* ------------------------ C37 ------------------------------------------ *)

\* a step sends PRE-PREPAREs only from a replica that is the primary of its
\* instance on a participating node with no view change in progress, and
\* for the view of the node
PrePrepareStep ==
    \A i \in (Len(sent) + 1)..Len(sent') :
        LET old == replicas[sent'[i][1]]
        IN  /\ ~old.view_change_in_progress
            /\ isPrimary(old) = "True"
            /\ isParticipating(old)
            /\ sent'[i][2].viewNo = old.viewNo

\* C37: while a view change is in progress the replica has no primary, its
\* node does not participate and has started the catch-up, and no step sends
\* a PRE-PREPARE; a PRE-PREPARE comes from a primary on a participating node
NoPrePrepareDuringViewChange ==
    /\ [](\A n \in DOMAIN replicas :
              replicas[n].view_change_in_progress =>
                  /\ replicas[n].primaryName = NoName
                  /\ ~isParticipating(replicas[n])
                  /\ replicas[n].catchupStarted)
    /\ [][PrePrepareStep]_vars

\* the primary of view 0 has sent a PRE-PREPARE, holds a request for the next
\* one and is in a view change
PrimaryInViewChangeWithRequests ==
    \E n \in DOMAIN replicas :
        /\ replicas[n].view_change_in_progress
        /\ replicas[n].requestQueue # << >>
        /\ \E i \in DOMAIN sent : sent[i][1] = n /\ sent[i][2].viewNo = 0
        /\ replicas[n].viewNo = 1

(* ------------------------ C38 ------------------------------------------ *)

\* the replica hands the message to its validation: it knows the primary and
\* the batch is neither ordered nor stable nor outside the watermarks
Validated(r, msg) ==
    /\ isPrimary(r) # "None"
    /\ ~isPpSeqNoStable(r, msg.ppSeqNo)
    /\ ~has_already_ordered(r, msg.viewNo, msg.ppSeqNo)
    /\ isPpSeqNoBetweenWaterMarks(r, msg.ppSeqNo)
    /\ can_pp_seq_no_be_in_view(r, msg.viewNo, msg.ppSeqNo) = "True"

\* the handler leaves the votes and what was ordered as they are, and the
\* validation reports the sender
RefusedAs(r, new, code, msg, sender) ==
    /\ new.prepares = r.prepares
    /\ new.commits = r.commits
    /\ new.ordered = r.ordered
    /\ new.last_ordered_3pc = r.last_ordered_3pc
    /\ Validated(r, msg) => Suspicion(code, msg, sender) \in SeqToSet(new.outBox)

\* the PREPAREs that differ from a PRE-PREPARE in one field, with the suspicion of each
WrongPrepares(pp) ==
    {<<[MakePrepare(pp) EXCEPT !.digest = BadDigest], "PR_DIGEST_WRONG">>,
     <<[MakePrepare(pp) EXCEPT !.stateRootHash = StateRoot(<<"r3">>)], "PR_STATE_WRONG">>,
     <<[MakePrepare(pp) EXCEPT !.txnRootHash = TxnRoot(<<"r3">>)], "PR_TXN_WRONG">>}

DuplicatePrepareRefused(r) ==
    \A key \in DOMAIN r.prepares : \A sender \in r.prepares[key].voters \ {r.name} :
        RefusedAs(r, processThreePhaseMsg(r, r.prepares[key].msg, sender),
                  "DUPLICATE_PR_SENT", r.prepares[key].msg, sender)

DuplicateCommitRefused(r) ==
    \A key \in DOMAIN r.commits : \A sender \in r.commits[key].voters \ {r.name} :
        RefusedAs(r, processThreePhaseMsg(r, r.commits[key].msg, sender),
                  "DUPLICATE_CM_SENT", r.commits[key].msg, sender)

WrongPrepareRefused(r) ==
    \A pp \in KnownPrePrepares(r) : \A sender \in Nodes \ {r.name, r.primaryName} :
        \A wrong \in WrongPrepares(pp) :
            ~hasVoteFrom(r.prepares, MsgKey(pp), sender) =>
                RefusedAs(r, processThreePhaseMsg(r, wrong[1], sender), wrong[2], wrong[1], sender)

RecordedVotes(r) == <<r.instanceChanges, r.view_change_done, r.next_view_indications>>

\* an INSTANCE_CHANGE for a view not greater than the current one changes nothing
StaleInstanceChangeIgnored(r) ==
    \A frm \in Nodes \ {r.name} : \A v \in 0..r.viewNo : \A degraded \in BOOLEAN :
        LET new == process_instance_change_msg(r, v, frm, degraded)
        IN  new.viewNo = r.viewNo /\ RecordedVotes(new) = RecordedVotes(r)

\* a VIEW_CHANGE_DONE for a view other than the current one changes nothing
OtherViewDoneIgnored(r) ==
    \A frm \in Nodes \ {r.name} : \A v \in ProposedViews \ {r.viewNo} :
        \A name \in Nodes : \A size \in LedgerSizes :
            LET new == process_vchd_msg(r, [type |-> VIEW_CHANGE_DONE, viewNo |-> v,
                                            name |-> name, ledgerInfo |-> size], frm)
            IN  new.viewNo = r.viewNo /\ RecordedVotes(new) = RecordedVotes(r)

\* a step changes the view number only to a greater one, on a quorum of
\* INSTANCE_CHANGE votes for it or on enough indications of it
ViewNoStep ==
    \A n \in DOMAIN replicas :
        LET old == replicas[n]
            new == replicas'[n]
        IN  /\ new.viewNo >= old.viewNo
            /\ new.viewNo # old.viewNo =>
                   /\ new.viewNo > old.viewNo
                   /\ new.view_change_in_progress
                   /\ IF new.propagate_primary
                      THEN /\ new.viewNo \notin DOMAIN new.next_view_indications
                           /\ Cardinality(IF new.viewNo \in DOMAIN old.next_view_indications
                                           THEN old.next_view_indications[new.viewNo]
                                           ELSE {}) + 1 >= Quorums.propagate_primary
                      ELSE hasInstChngQuorum(new, new.viewNo, Quorums.view_change)

\* C39: the view number of a node never decreases: a change sets it to a
\* greater value, on an INSTANCE_CHANGE quorum or on indications of a future
\* view, and an INSTANCE_CHANGE for a view not greater than the current one or
\* a VIEW_CHANGE_DONE for another view leaves it and the recorded votes as they were
ViewNoNeverDecreases ==
    /\ [](\A n \in DOMAIN replicas :
             StaleInstanceChangeIgnored(replicas[n]) /\ OtherViewDoneIgnored(replicas[n]))
    /\ [][ViewNoStep]_vars

\* the node has followed its peers to a later view and holds votes of both kinds
ViewRaisedWithVotesRecorded ==
    \E n \in DOMAIN replicas :
        /\ replicas[n].viewNo > 0
        /\ replicas[n].propagate_primary
        /\ replicas[n].instanceChanges # EmptyDict
        /\ replicas[n].view_change_done # EmptyDict
(* ------------------------------ C40 ------------------------------------ *)

\* a step leaves last_ordered_3pc or moves it to a later key
NotBefore(n) ==
    compare_3PC_keys(replicas[n].last_ordered_3pc, replicas'[n].last_ordered_3pc) >= 0

\* C40 as stated: last_ordered_3pc of the master replica never decreases
LastOrderedNeverDecreases ==
    [][\A n \in DOMAIN replicas : NotBefore(n)]_vars
\* the start of a view change into a view not later than the view of
\* last_ordered_3pc sets last_ordered_3pc back to the beginning of the new view
ResetAtViewChangeStart(n) ==
    /\ replicas'[n].viewNo > replicas[n].viewNo
    /\ replicas'[n].view_change_in_progress
    /\ replicas'[n].viewNo <= replicas[n].last_ordered_3pc[1]
    /\ replicas'[n].last_ordered_3pc = <<replicas'[n].viewNo, 0>>

IsOrderedEvent(i) == sent[i][2].type = ORDERED

\* the key last_ordered_3pc took at an event of the log: a batch ordered or a catch-up ended
IsLastOrderedEvent(i) == sent[i][2].type \in {ORDERED, CAUGHT_UP}

\* no batch is ordered at or below a key that last_ordered_3pc has had
OrderedAbovePast ==
    \A j \in DOMAIN sent : IsOrderedEvent(j) =>
        \A i \in 1..(j - 1) : IsLastOrderedEvent(i) /\ sent[i][1] = sent[j][1] =>
            compare_3PC_keys(MsgKey(sent[i][2]), MsgKey(sent[j][2])) > 0

\* C40 (amended): last_ordered_3pc of the master replica decreases only when a
\* view change starts into a view not later than its view, where it becomes
\* (viewNo, 0); no batch is ordered at or below a key it has had before
LastOrderedDecreasesOnlyAtReset ==
    /\ []OrderedAbovePast
    /\ [][\A n \in DOMAIN replicas : NotBefore(n) \/ ResetAtViewChangeStart(n)]_vars

\* the replica has caught up into a later view than its own and has started
\* the view change to that view
ResetAfterCatchUpIntoLaterView ==
    \E n \in DOMAIN replicas : \E i \in DOMAIN sent :
        /\ sent[i] = <<n, [type |-> CAUGHT_UP, viewNo |-> replicas[n].viewNo, ppSeqNo |-> CHK_FREQ]>>
        /\ replicas[n].view_change_in_progress
        /\ replicas[n].propagate_primary
        /\ replicas[n].last_ordered_3pc = <<replicas[n].viewNo, 0>>
====
